---- MODULE Spec2Model ----
(***************************************************************************)
(* The exchange-document encoder of modulbank (client_bank_exchange.py)    *)
(* and the payment-order mapper of client.py, as a state machine.          *)
(*                                                                         *)
(* TLA+ strings are ASCII, so the Cyrillic identifiers of the source are   *)
(* written in Latin transliteration (Номер -> "Nomer", РасчСчет ->         *)
(* "RaschSchet", ...); the original is given in a comment beside each      *)
(* list.  A text is a sequence of tokens: "{}={}\n".format(name, value) is *)
(* <<name, "=", value, "\n">>, and concatenation of texts is \o.  String   *)
(* values are single-line: no value token holds a newline.                 *)
(*                                                                         *)
(* Spec is one document: its construction, direct assignments and renders  *)
(* by a caller of the library, or one create_payment_draft call from the   *)
(* fill to the return.  SpecFormat gives one value to the formatter,       *)
(* SpecContractor constructs one Contractor and reads its kpp, SpecMulti   *)
(* interleaves several create_payment_draft calls.                         *)
(* SpecApi is one response to one of the four API methods, SpecPaging one   *)
(* client with one operations call, SpecNotify one check_signature call,   *)
(* SpecOperation the construction of one Operation.                        *)
(***************************************************************************)
EXTENDS Integers, Sequences, FiniteSets, TLC

VARIABLES
    clock,      \* the system clock: seconds since 31.12.2016 23:59:59
    pc,         \* position in ClientBankExchange.__init__, then "ready"
    doc,        \* ClientBankExchange.__dict__: section name -> (field name -> value)
    order,      \* the PaymentOrder given to the mapper, NoOrder before
    nassign,    \* number of direct field assignments made so far
    nrender,    \* renders of the current field state: 0, 1, or 2 for two and more
    out,        \* what the last render of the current field state returned, NoText if none
    call,       \* position in create_payment_draft, "none" outside a call
    req,        \* the "document" of the JSON body the call posted, <<>> before the post
    status,     \* r.status_code of the response, 0 before the response
    rbody,      \* whether r.json() parses the response body, "none" before the response
    ret,        \* what the call returned or raised, NoReturn before
    input,      \* the argument of the function under test
    result,     \* what the function under test returned or raised, NoResult before
    heap,       \* the live ClientBankExchange objects: reference -> __dict__
    calls       \* the running create_payment_draft calls: call -> its local variables

\* the variables of a create_payment_draft call after the fill
draftvars == <<call, req, status, rbody, ret>>
\* the variables of the function harness
purevars == <<input, result>>
\* the variables of the concurrent calls
multivars == <<heap, calls>>

vars == <<clock, pc, doc, order, nassign, nrender, out, draftvars, purevars, multivars>>

----------------------------------------------------------------------------
(* Bounds of the model *)

\* the clock runs through the instants 0..MaxClock
MaxClock == 1
\* at most this many direct field assignments in one behaviour
MaxAssign == 2

----------------------------------------------------------------------------
(* Values a field can hold *)

None == [kind |-> "none"]
Str(s) == [kind |-> "str", s |-> s]
Date(y, m, d) == [kind |-> "date", y |-> y, m |-> m, d |-> d]
Time(h, mi, s) == [kind |-> "time", h |-> h, mi |-> mi, s |-> s]
\* decimal.Decimal: (-1)^neg * coeff * 10^(-scale)
Decimal(neg, coeff, scale) == [kind |-> "decimal", neg |-> neg, coeff |-> coeff, scale |-> scale]

\* Decimal('Infinity'): a Decimal that quantize() refuses
DecimalInfinity == [kind |-> "decimal_inf"]
\* an int
PyInt(n) == [kind |-> "int", n |-> n]
\* the float w + t/10, whose repr is "w.t"
PyFloat(w, t) == [kind |-> "float", w |-> w, t |-> t]

RECURSIVE Pow10(_)
Pow10(n) == IF n = 0 THEN 1 ELSE 10 * Pow10(n - 1)

\* a directive that does not pad
Pad2_NoPad(n) == ToString(n)

\* %d, %m, %H, %M, %S of strftime: two digits, zero-padded
Pad2(n) == IF n < 10 THEN "0" \o ToString(n) ELSE ToString(n)

\* value.strftime('%d.%m.%Y')
StrfDate(v) == Pad2(v.d) \o "." \o Pad2(v.m) \o "." \o ToString(v.y)

\* value.strftime('%H:%M:%S')
StrfTime(v) == Pad2(v.h) \o ":" \o Pad2(v.mi) \o ":" \o Pad2(v.s)

\* a quantize that rounds a tie up (ROUND_HALF_UP)
Quantize_HalfUp(v) ==
    IF v.scale <= 2
    THEN v.coeff * Pow10(2 - v.scale)
    ELSE LET unit == Pow10(v.scale - 2)
             q == v.coeff \div unit
             r == v.coeff % unit
         IN  IF 2 * r >= unit THEN q + 1 ELSE q

\* the coefficient, in hundredths, of value.quantize(Decimal('.01'), rounding=ROUND_HALF_DOWN)
Quantize(v) ==
    IF v.scale <= 2
    THEN v.coeff * Pow10(2 - v.scale)
    ELSE LET unit == Pow10(v.scale - 2)
             q == v.coeff \div unit
             r == v.coeff % unit
         IN  IF 2 * r > unit THEN q + 1 ELSE q

\* str() of a Decimal with two decimal places
StrQuantized(v) ==
    LET q == Quantize(v)
    IN  (IF v.neg THEN "-" ELSE "") \o ToString(q \div 100) \o "." \o Pad2(q % 100)

\* str() of a Decimal as it is
StrDecimal(v) ==
    LET unit == Pow10(v.scale)
        frac == ToString(unit + (v.coeff % unit))
    IN  (IF v.neg THEN "-" ELSE "") \o ToString(v.coeff \div unit)
        \o (IF v.scale = 0 THEN "" ELSE "." \o SubSeq(frac, 2, Len(frac)))

\* str(value), as "{}".format(value) and "%s" % value apply it
PyStr(v) ==
    CASE v.kind = "str" -> v.s
      [] v.kind = "none" -> "None"
      [] v.kind = "date" -> ToString(v.y) \o "-" \o Pad2(v.m) \o "-" \o Pad2(v.d)
      [] v.kind = "time" -> StrfTime(v)
      [] v.kind = "decimal" -> StrDecimal(v)
      [] v.kind = "decimal_inf" -> "Infinity"
      [] v.kind = "int" -> ToString(v.n)
      [] v.kind = "float" -> ToString(v.w) \o "." \o ToString(v.t)

\* BaseSection.__format_value raises: quantize() of an infinity is an
\* InvalidOperation; no other branch of the function can fail, and the value it
\* hands back unchanged is turned to text by "{}={}\n".format
FormatRaises(v) == v.kind = "decimal_inf"

\* BaseSection.__format_value, followed by the str() of "{}={}\n".format
FormatValue(v) ==
    CASE v.kind = "date" -> StrfDate(v)
      [] v.kind = "time" -> StrfTime(v)
      [] v.kind = "decimal" -> StrQuantized(v)
      [] OTHER -> PyStr(v)

----------------------------------------------------------------------------
(* The sections: declared fields and mandatory fields *)

\* ВерсияФормата, Кодировка, Отправитель, Получатель, ДатаСоздания, ВремяСоздания
GeneralSection_fields ==
    <<"VersiyaFormata", "Kodirovka", "Otpravitel", "Poluchatel", "DataSozdaniya",
      "VremyaSozdaniya">>
\* a mandatory list of the General section with its first two names exchanged
GeneralSection_mandatory_fields_Swapped ==
    <<"Kodirovka", "VersiyaFormata", "Otpravitel">>
GeneralSection_mandatory_fields ==
    <<"VersiyaFormata", "Kodirovka", "Otpravitel">>

\* ДатаНачала, ДатаКонца, РасчСчет, Документ
FilterSection_fields ==
    <<"DataNachala", "DataKonca", "RaschSchet", "Dokument">>
FilterSection_mandatory_fields ==
    <<"DataNachala", "DataKonca", "RaschSchet">>

\* ДатаНачала, ДатаКонца, РасчСчет, НачальныйОстаток, ВсегоПоступило, ВсегоСписано,
\* КонечныйОстаток
BalancesSection_fields ==
    <<"DataNachala", "DataKonca", "RaschSchet", "NachalnyyOstatok", "VsegoPostupilo",
      "VsegoSpisano", "KonechnyyOstatok">>
BalancesSection_mandatory_fields ==
    <<>>

\* Номер, Дата, Сумма, КвитанцияДата, ... (client_bank_exchange.py:111-122)
DocumentSection_fields ==
    <<"Nomer", "Data", "Summa", "KvitanciyaData", "KvitanciyaVremya",
      "KvitanciyaSoderzhanie", "PlatelshchikSchet", "DataSpisano", "Platelshchik",
      "PlatelshchikINN", "Platelshchik1", "Platelshchik2", "Platelshchik3",
      "Platelshchik4", "PlatelshchikRaschSchet", "PlatelshchikBank1",
      "PlatelshchikBank2", "PlatelshchikBIK", "PlatelshchikKorschet",
      "PoluchatelSchet", "DataPostupilo", "Poluchatel", "PoluchatelINN",
      "Poluchatel1", "Poluchatel2", "Poluchatel3", "Poluchatel4",
      "PoluchatelRaschSchet", "PoluchatelBank1", "PoluchatelBank2", "PoluchatelBIK",
      "PoluchatelKorschet", "VidPlatezha", "VidOplaty", "Kod", "NaznacheniePlatezha",
      "NaznacheniePlatezha1", "NaznacheniePlatezha2", "NaznacheniePlatezha3",
      "NaznacheniePlatezha4", "NaznacheniePlatezha5", "NaznacheniePlatezha6",
      "StatusSostavitelya", "PlatelshchikKPP", "PoluchatelKPP", "PokazatelKBK",
      "OKATO", "PokazatelOsnovaniya", "PokazatelPerioda", "PokazatelNomera",
      "PokazatelDaty", "PokazatelTipa", "Ocherednost", "SrokAkcepta",
      "VidAkkreditiva", "SrokPlatezha", "UslovieOplaty1", "UslovieOplaty2",
      "UslovieOplaty3", "PlatezhPoPredst", "DopolnUsloviya",
      "NomerSchetaPostavshchika", "DataOtsylkiDok">>
\* Номер, Дата, Сумма, ПлательщикСчет, ... (client_bank_exchange.py:123-128)
DocumentSection_mandatory_fields ==
    <<"Nomer", "Data", "Summa", "PlatelshchikSchet", "Platelshchik", "PlatelshchikINN",
      "Platelshchik1", "PlatelshchikRaschSchet", "PlatelshchikBank1", "PlatelshchikBIK",
      "PlatelshchikKorschet", "PoluchatelSchet", "Poluchatel", "PoluchatelINN",
      "Poluchatel1", "PoluchatelRaschSchet", "PoluchatelBank1", "PoluchatelBIK",
      "PoluchatelKorschet", "VidOplaty", "VidPlatezha", "StatusSostavitelya",
      "PlatelshchikKPP", "PoluchatelKPP", "PokazatelKBK", "OKATO",
      "PokazatelOsnovaniya", "PokazatelPerioda", "PokazatelNomera", "PokazatelDaty">>

\* the attributes of ClientBankExchange, in the order __init__ creates them:
\* ОбщиеСведения, УсловияОтбора, СекцияОстатков, СекцияПлатежногоДокумента
SectionNames ==
    <<"ObshchieSvedeniya", "UsloviyaOtbora", "SekciyaOstatkov",
      "SekciyaPlatezhnogoDokumenta">>

Fields(sec) ==
    CASE sec = "ObshchieSvedeniya" -> GeneralSection_fields
      [] sec = "UsloviyaOtbora" -> FilterSection_fields
      [] sec = "SekciyaOstatkov" -> BalancesSection_fields
      [] sec = "SekciyaPlatezhnogoDokumenta" -> DocumentSection_fields

MandatoryFields(sec) ==
    CASE sec = "ObshchieSvedeniya" -> GeneralSection_mandatory_fields
      [] sec = "UsloviyaOtbora" -> FilterSection_mandatory_fields
      [] sec = "SekciyaOstatkov" -> BalancesSection_mandatory_fields
      [] sec = "SekciyaPlatezhnogoDokumenta" -> DocumentSection_mandatory_fields

Range(seq) == {seq[i] : i \in 1..Len(seq)}

----------------------------------------------------------------------------
(* BaseSection.document *)

\* name in self._mandatory_fields
In(name, list) == \E j \in 1..Len(list) : list[j] = name

\* s += "{}={}\n".format(name, value)
Line(name, value) == <<name, "=", value, "\n">>

\* a first loop that skips an absent value, as the second loop does
RECURSIVE MandatoryPass_SkipAbsent(_, _, _)
MandatoryPass_SkipAbsent(mandatory, dict, i) ==
    IF i > Len(mandatory) THEN <<>>
    ELSE (IF dict[mandatory[i]] = None
          THEN <<>>
          ELSE Line(mandatory[i], FormatValue(dict[mandatory[i]])))
         \o MandatoryPass_SkipAbsent(mandatory, dict, i + 1)

\* the first loop: every mandatory field, an absent value as ''
RECURSIVE MandatoryPass(_, _, _)
MandatoryPass(mandatory, dict, i) ==
    IF i > Len(mandatory) THEN <<>>
    ELSE LET name == mandatory[i]
             value == IF dict[name] = None THEN Str("") ELSE dict[name]
         IN  Line(name, FormatValue(value)) \o MandatoryPass(mandatory, dict, i + 1)

\* a second loop without the test for an absent value: absent renders as ''
RECURSIVE OptionalPass_EmitAbsent(_, _, _, _)
OptionalPass_EmitAbsent(fields, mandatory, dict, i) ==
    IF i > Len(fields) THEN <<>>
    ELSE (IF In(fields[i], mandatory)
          THEN <<>>
          ELSE Line(fields[i], FormatValue(IF dict[fields[i]] = None THEN Str("")
                                           ELSE dict[fields[i]])))
         \o OptionalPass_EmitAbsent(fields, mandatory, dict, i + 1)

\* a second loop without the test for a mandatory field
RECURSIVE OptionalPass_ReEmit(_, _, _, _)
OptionalPass_ReEmit(fields, mandatory, dict, i) ==
    IF i > Len(fields) THEN <<>>
    ELSE (IF dict[fields[i]] = None
          THEN <<>>
          ELSE Line(fields[i], FormatValue(dict[fields[i]])))
         \o OptionalPass_ReEmit(fields, mandatory, dict, i + 1)

\* the second loop: every declared field that is not mandatory and not absent
RECURSIVE OptionalPass(_, _, _, _)
OptionalPass(fields, mandatory, dict, i) ==
    IF i > Len(fields) THEN <<>>
    ELSE LET name == fields[i]
         IN  (IF In(name, mandatory) \/ dict[name] = None
              THEN <<>>
              ELSE Line(name, FormatValue(dict[name])))
             \o OptionalPass(fields, mandatory, dict, i + 1)

\* the two loops in the other order
BaseSection_document_OptionalFirst(fields, mandatory, dict) ==
    OptionalPass(fields, mandatory, dict, 1) \o MandatoryPass(mandatory, dict, 1)

BaseSection_document(fields, mandatory, dict) ==
    MandatoryPass(mandatory, dict, 1) \o OptionalPass(fields, mandatory, dict, 1)

\* the document property of section sec of the exchange object d
SectionDocument(d, sec) ==
    BaseSection_document(Fields(sec), MandatoryFields(sec), d[sec])

----------------------------------------------------------------------------
(* ClientBankExchange.document *)

\* 'СекцияДокумент=Платежное поручение\n'
SekciyaDokument == <<"SekciyaDokument", "=", "Platezhnoe poruchenie", "\n">>
\* 'КонецДокумента\n'
KonecDokumenta == <<"KonecDokumenta", "\n">>
\* a wrapper that ends the last line too
Wrap_TrailingNewline(body) ==
    <<"1CClientBankExchange", "\n">> \o body \o <<"KonecFayla", "\n">>

\* "1CClientBankExchange\n{body}КонецФайла"
Wrap(body) == <<"1CClientBankExchange", "\n">> \o body \o <<"KonecFayla">>

ClientBankExchange_document(d) ==
    Wrap(SectionDocument(d, "ObshchieSvedeniya")
         \o SectionDocument(d, "UsloviyaOtbora")
         \o SectionDocument(d, "SekciyaOstatkov")
         \o SekciyaDokument
         \o SectionDocument(d, "SekciyaPlatezhnogoDokumenta")
         \o KonecDokumenta)

----------------------------------------------------------------------------
(* The system clock *)

\* datetime.date.today() at instant c: instant 0 is 31.12.2016 23:59:59, each later
\* instant one second on
Today(c) == IF c = 0 THEN Date(2016, 12, 31) ELSE Date(2017, 1, 1)

\* datetime.datetime.now().replace(tzinfo=...).time() at instant c: the local
\* wall-clock time, not converted
NowTime(c) == IF c = 0 THEN Time(23, 59, 59) ELSE Time(0, 0, c - 1)

----------------------------------------------------------------------------
(* Construction: ClientBankExchange.__init__ and the sections' __init__ *)

\* a constructor that leaves the last declared field without an entry
AllNone_SkipLast(fields) == [name \in Range(SubSeq(fields, 1, Len(fields) - 1)) |-> None]

\* for name in self._fields: self.__dict__[name] = None
AllNone(fields) == [name \in Range(fields) |-> None]

\* a General section whose encoding label was left out
GeneralSection_init_NoEncoding(today) ==
    [AllNone(GeneralSection_fields) EXCEPT
        !["VersiyaFormata"] = Str("1.02"),
        !["Otpravitel"] = Str("modulbank_python"),
        !["DataSozdaniya"] = today]

\* GeneralSection.__init__ up to and including ДатаСоздания
GeneralSection_init(today) ==
    [AllNone(GeneralSection_fields) EXCEPT
        !["VersiyaFormata"] = Str("1.02"),
        !["Kodirovka"] = Str("Windows"),
        !["Otpravitel"] = Str("modulbank_python"),
        !["DataSozdaniya"] = today]

\* FilterSection.__init__ up to and including ДатаНачала
FilterSection_init(today) ==
    [AllNone(FilterSection_fields) EXCEPT !["DataNachala"] = today]

BalancesSection_init == AllNone(BalancesSection_fields)

DocumentSection_init == AllNone(DocumentSection_fields)

\* d with attribute sec bound to the section object dict
WithSection(d, sec, dict) ==
    [s \in (DOMAIN d) \cup {sec} |-> IF s = sec THEN dict ELSE d[s]]

NoDoc == [s \in {} |-> None]
NoOrder == [kind |-> "none"]
\* nothing rendered: no text for the document nor for any section
NoText == [k \in Range(SectionNames) \cup {"document"} |-> <<>>]
\* the call has neither returned nor raised
NoReturn == [kind |-> "none"]
\* the function under test has not run
NoResult == [kind |-> "none"]

\* before ClientBankExchange(): no document, no order, no call
InitDocument ==
    /\ clock \in 0..MaxClock
    /\ pc = "start"
    /\ doc = NoDoc
    /\ order = NoOrder
    /\ nassign = 0
    /\ nrender = 0
    /\ out = NoText
    /\ call = "none"
    /\ req = <<>>
    /\ status = 0
    /\ rbody = "none"
    /\ ret = NoReturn

\* no function under test
InitHarness ==
    /\ input = None
    /\ result = NoResult

\* no concurrent calls
InitCalls ==
    /\ heap = <<>>
    /\ calls = <<>>

Init == InitDocument /\ InitHarness /\ InitCalls

\* a second passes; nothing reads the clock once the document is constructed
Tick ==
    /\ pc # "ready"
    /\ clock < MaxClock
    /\ clock' = clock + 1
    /\ UNCHANGED <<pc, doc, order, nassign, nrender, out, draftvars, purevars, multivars>>

\* GeneralSection.__init__, lines 63-71: ДатаСоздания = datetime.date.today()
GeneralDate ==
    /\ pc = "start"
    /\ doc' = WithSection(doc, "ObshchieSvedeniya", GeneralSection_init(Today(clock)))
    /\ pc' = "general_time"
    /\ UNCHANGED <<clock, order, nassign, nrender, out, draftvars, purevars, multivars>>

\* GeneralSection.__init__, line 72: ВремяСоздания = datetime.datetime.now()....time()
GeneralTime ==
    /\ pc = "general_time"
    /\ doc' = [doc EXCEPT !["ObshchieSvedeniya"]["VremyaSozdaniya"] = NowTime(clock)]
    /\ pc' = "filter_begin"
    /\ UNCHANGED <<clock, order, nassign, nrender, out, draftvars, purevars, multivars>>

\* FilterSection.__init__, lines 83-88: ДатаНачала = datetime.date.today()
FilterBegin ==
    /\ pc = "filter_begin"
    /\ doc' = WithSection(doc, "UsloviyaOtbora", FilterSection_init(Today(clock)))
    /\ pc' = "filter_end"
    /\ UNCHANGED <<clock, order, nassign, nrender, out, draftvars, purevars, multivars>>

\* FilterSection.__init__, line 89: ДатаКонца = datetime.date.today()
FilterEnd ==
    /\ pc = "filter_end"
    /\ doc' = [doc EXCEPT !["UsloviyaOtbora"]["DataKonca"] = Today(clock)]
    /\ pc' = "rest"
    /\ UNCHANGED <<clock, order, nassign, nrender, out, draftvars, purevars, multivars>>

\* ClientBankExchange.__init__, lines 145-146: BalancesSection(), DocumentSection()
RestInit ==
    /\ pc = "rest"
    /\ doc' = WithSection(WithSection(doc, "SekciyaOstatkov", BalancesSection_init),
                          "SekciyaPlatezhnogoDokumenta", DocumentSection_init)
    /\ pc' = "ready"
    /\ UNCHANGED <<clock, order, nassign, nrender, out, draftvars, purevars, multivars>>

----------------------------------------------------------------------------
(* Payment orders (structs.py) *)

BankShort(account, name, bic, corr_acc) ==
    [account |-> account, name |-> name, bic |-> bic, corr_acc |-> corr_acc]

\* Contractor built from keyword arguments: the fields hold what was passed
Contractor(name, inn, kpp, bank) ==
    [name |-> name, inn |-> inn, kpp |-> kpp, bank |-> bank]

\* Contractor.kpp: return self.__kpp or '0'
Contractor_kpp(c) == IF c.kpp = None \/ c.kpp = Str("") THEN Str("0") ELSE c.kpp

PaymentOrder(doc_num, account_num, amount, purpose, payer, recipient, payment_type, priority, date) ==
    [doc_num |-> doc_num, account_num |-> account_num, amount |-> amount,
     purpose |-> purpose, payer |-> payer, recipient |-> recipient,
     payment_type |-> payment_type, priority |-> priority, date |-> date]

\* the order of test_create_payment_draft, made on 31.12.2016
TestOrder ==
    PaymentOrder(Str("994720"), Str("40802810670010011008"), Decimal(FALSE, 100, 0),
        Str("Dlya testa"),
        Contractor(Str("IP Aleksandrov"), Str("770400372208"), None,
            BankShort(Str("40802810670010011008"), Str("MODULBANK"), Str("044525092"),
                      Str("30101810645250000092"))),
        Contractor(Str("MODULBANK"), Str("2204000595"), Str("771543001"),
            BankShort(Str("30102810675250000092"), Str("MODULBANK"), Str("044525092"),
                      Str("30102810675250000092"))),
        Str("01"), Str("5"), Date(2016, 12, 31))

\* another order: other account, an amount with a third decimal, an explicit date,
\* no correspondent account for the recipient
OtherOrder ==
    PaymentOrder(Str("17"), Str("40702810000000000001"), Decimal(FALSE, 630170005, 3),
        Str("Oplata"),
        Contractor(Str("OOO Romashka"), Str("7701000001"), Str("770101001"),
            BankShort(Str("40702810000000000001"), Str("SBERBANK"), Str("044525225"),
                      Str("30101810400000000225"))),
        Contractor(Str("IP Ivanov"), Str("500100000001"), Str(""),
            BankShort(Str("40802810000000000002"), Str("VTB"), Str("044525187"), None)),
        Str("01"), Str("3"), Date(2016, 4, 1))

\* an order whose amount is a non-numeric string and whose priority is an int
LooseOrder ==
    PaymentOrder(Str("18"), Str("40702810000000000003"), Str("abc"),
        Str("Avans"),
        Contractor(Str("OOO Vasilek"), Str("7702000002"), Str("770201001"),
            BankShort(Str("40702810000000000003"), Str("ALFA"), Str("044525593"),
                      Str("30101810200000000593"))),
        Contractor(Str("IP Petrov"), Str("500200000002"), None,
            BankShort(Str("40802810000000000004"), Str("VTB"), Str("044525187"),
                      Str("30101810700000000187"))),
        Str("01"), PyInt(5), Date(2016, 4, 1))

\* an order whose amount is Decimal('Infinity')
InfiniteOrder ==
    PaymentOrder(Str("19"), Str("40702810000000000005"), DecimalInfinity,
        Str("Avans"),
        Contractor(Str("OOO Lyutik"), Str("7703000003"), Str("770301001"),
            BankShort(Str("40702810000000000005"), Str("ALFA"), Str("044525593"),
                      Str("30101810200000000593"))),
        Contractor(Str("IP Sidorov"), Str("500300000003"), None,
            BankShort(Str("40802810000000000006"), Str("VTB"), Str("044525187"),
                      Str("30101810700000000187"))),
        Str("01"), Str("5"), Date(2016, 4, 1))

Orders == {TestOrder, OtherOrder, LooseOrder, InfiniteOrder}

----------------------------------------------------------------------------
(* ModulbankClient.__fill_client_bank_exchange *)

\* a fill that leaves the Filter section alone
FillFilter_Skip(dict, o) == dict

\* a fill that writes the account number into every field of the Filter section
FillFilter_Whole(dict, o) == [k \in DOMAIN dict |-> o.account_num]

\* the Filter section after fill: УсловияОтбора.РасчСчет = order.account_num
FillFilter(dict, o) == [dict EXCEPT !["RaschSchet"] = o.account_num]

\* a fill by a one-to-one table: every attribute goes to one field, Плательщик is
\* the payer's name
FillDocument_OneToOne(dict, o) ==
    [dict EXCEPT
        !["Nomer"] = o.doc_num,
        !["Data"] = o.date,
        !["Summa"] = o.amount,
        !["NaznacheniePlatezha"] = o.purpose,
        !["Platelshchik"] = o.payer.name,
        !["PlatelshchikINN"] = o.payer.inn,
        !["PlatelshchikKPP"] = Contractor_kpp(o.payer),
        !["PlatelshchikSchet"] = o.payer.bank.account,
        !["PlatelshchikBank1"] = o.payer.bank.name,
        !["PlatelshchikBIK"] = o.payer.bank.bic,
        !["PlatelshchikKorschet"] = o.payer.bank.corr_acc,
        !["Poluchatel"] = o.recipient.name,
        !["PoluchatelINN"] = o.recipient.inn,
        !["PoluchatelKPP"] = Contractor_kpp(o.recipient),
        !["PoluchatelSchet"] = o.recipient.bank.account,
        !["PoluchatelBank1"] = o.recipient.bank.name,
        !["PoluchatelBIK"] = o.recipient.bank.bic,
        !["PoluchatelKorschet"] = o.recipient.bank.corr_acc,
        !["VidOplaty"] = o.payment_type,
        !["Ocherednost"] = o.priority]

\* a fill that leaves out the payer's account (lines 336 and 337)
FillDocument_NoPayerAccount(dict, o) ==
    [dict EXCEPT
        !["Nomer"] = o.doc_num,
        !["Data"] = o.date,
        !["Summa"] = o.amount,
        !["NaznacheniePlatezha"] = o.purpose,
        !["NaznacheniePlatezha1"] = o.purpose,
        !["Platelshchik"] = Str(PyStr(o.payer.inn) \o " " \o PyStr(o.payer.name)),
        !["PlatelshchikINN"] = o.payer.inn,
        !["PlatelshchikKPP"] = Contractor_kpp(o.payer),
        !["PlatelshchikBank1"] = o.payer.bank.name,
        !["PlatelshchikBIK"] = o.payer.bank.bic,
        !["PlatelshchikKorschet"] = o.payer.bank.corr_acc,
        !["Poluchatel"] = o.recipient.name,
        !["PoluchatelINN"] = o.recipient.inn,
        !["PoluchatelKPP"] = Contractor_kpp(o.recipient),
        !["PoluchatelSchet"] = o.recipient.bank.account,
        !["PoluchatelRaschSchet"] = o.recipient.bank.account,
        !["PoluchatelBank1"] = o.recipient.bank.name,
        !["PoluchatelBIK"] = o.recipient.bank.bic,
        !["PoluchatelKorschet"] = o.recipient.bank.corr_acc,
        !["VidOplaty"] = o.payment_type,
        !["Ocherednost"] = o.priority,
        !["DataSpisano"] = o.date]

\* the Payment section after the assignments of lines 327-353
FillDocument(dict, o) ==
    [dict EXCEPT
        !["Nomer"] = o.doc_num,
        !["Data"] = o.date,
        !["Summa"] = o.amount,
        !["NaznacheniePlatezha"] = o.purpose,
        !["NaznacheniePlatezha1"] = o.purpose,
        !["Platelshchik"] = Str(PyStr(o.payer.inn) \o " " \o PyStr(o.payer.name)),
        !["PlatelshchikINN"] = o.payer.inn,
        !["PlatelshchikKPP"] = Contractor_kpp(o.payer),
        !["PlatelshchikSchet"] = o.payer.bank.account,
        !["PlatelshchikRaschSchet"] = o.payer.bank.account,
        !["PlatelshchikBank1"] = o.payer.bank.name,
        !["PlatelshchikBIK"] = o.payer.bank.bic,
        !["PlatelshchikKorschet"] = o.payer.bank.corr_acc,
        !["Poluchatel"] = o.recipient.name,
        !["PoluchatelINN"] = o.recipient.inn,
        !["PoluchatelKPP"] = Contractor_kpp(o.recipient),
        !["PoluchatelSchet"] = o.recipient.bank.account,
        !["PoluchatelRaschSchet"] = o.recipient.bank.account,
        !["PoluchatelBank1"] = o.recipient.bank.name,
        !["PoluchatelBIK"] = o.recipient.bank.bic,
        !["PoluchatelKorschet"] = o.recipient.bank.corr_acc,
        !["VidOplaty"] = o.payment_type,
        !["Ocherednost"] = o.priority,
        !["DataSpisano"] = o.date]

\* a fill that puts the account number into the Balances section's РасчСчет
fill_client_bank_exchange_WrongSection(o, d) ==
    [d EXCEPT !["SekciyaOstatkov"]["RaschSchet"] = o.account_num,
              !["SekciyaPlatezhnogoDokumenta"] = FillDocument(@, o)]

\* a fill that does not set Очередность
fill_client_bank_exchange_NoPriority(o, d) ==
    [d EXCEPT !["UsloviyaOtbora"] = FillFilter(@, o),
              !["SekciyaPlatezhnogoDokumenta"] =
                  [FillDocument(@, o) EXCEPT !["Ocherednost"] = None]]

fill_client_bank_exchange(o, d) ==
    [d EXCEPT !["UsloviyaOtbora"] = FillFilter(@, o),
              !["SekciyaPlatezhnogoDokumenta"] = FillDocument(@, o)]

----------------------------------------------------------------------------
(* Operations on a constructed document *)

\* the fields the model assigns directly: a mandatory field with a default
\* (Отправитель), an optional one declared last (Документ), a field of the section
\* without mandatory fields, a mandatory field without default (Сумма) and an
\* optional one declared before mandatory ones (КвитанцияДата)
AssignTargets ==
    { <<"ObshchieSvedeniya", "Otpravitel">>,
      <<"UsloviyaOtbora", "Dokument">>,
      <<"SekciyaOstatkov", "RaschSchet">>,
      <<"SekciyaPlatezhnogoDokumenta", "Summa">>,
      <<"SekciyaPlatezhnogoDokumenta", "KvitanciyaData">> }

\* the values the model assigns: absent, a string, a decimal on a rounding tie
AssignValues ==
    { None, Str("abc"), Decimal(FALSE, 630170005, 3) }

\* exchange.<sec>.<name> = v
SetField(d, sec, name, v) == [d EXCEPT ![sec][name] = v]

\* a caller of the library assigns a field of a section of its document
Assign(sec, name, v) ==
    /\ pc = "ready"
    /\ order = NoOrder
    /\ nassign < MaxAssign
    /\ doc' = SetField(doc, sec, name, v)
    /\ nassign' = nassign + 1
    /\ nrender' = 0
    /\ out' = NoText
    /\ UNCHANGED <<clock, pc, order, draftvars, purevars, multivars>>

\* create_payment_draft, lines 302-303: the mapper is private to the client and
\* its one call fills the document just constructed; the document is then only
\* rendered
Fill(o) ==
    /\ pc = "ready"
    /\ order = NoOrder
    /\ nassign = 0
    /\ doc' = fill_client_bank_exchange(o, doc)
    /\ order' = o
    /\ nrender' = 0
    /\ out' = NoText
    /\ call' = "filled"
    /\ UNCHANGED <<clock, pc, nassign, req, status, rbody, ret, purevars, multivars>>

\* a render that stores the '' of an absent mandatory field back into the section
DictAfterDocument_WriteBack(mandatory, dict) ==
    [name \in DOMAIN dict |->
        IF In(name, mandatory) /\ dict[name] = None THEN Str("") ELSE dict[name]]

\* the section's __dict__ after its document property has run: the loops bind
\* value locally and write nothing back
DictAfterDocument(mandatory, dict) == dict

\* what reading exchange.document, and each section's document, returns
Rendered(d) ==
    [k \in Range(SectionNames) \cup {"document"} |->
        IF k = "document" THEN ClientBankExchange_document(d) ELSE SectionDocument(d, k)]

\* reading exchange.document raises: some held value cannot be formatted (an
\* absent value is replaced by '' or skipped before it is formatted)
RenderRaises(d) ==
    \E sec \in DOMAIN d : \E name \in DOMAIN d[sec] : FormatRaises(d[sec][name])

\* the document's __dict__ after its document property has run
DocAfterDocument(d) ==
    [sec \in DOMAIN d |-> DictAfterDocument(MandatoryFields(sec), d[sec])]

\* a caller of the library reads the document property of its own document
Render ==
    /\ pc = "ready"
    /\ call = "none"
    /\ ~RenderRaises(doc)
    /\ nrender' = IF nrender = 0 THEN 1 ELSE 2
    /\ out' = Rendered(doc)
    /\ doc' = DocAfterDocument(doc)
    /\ UNCHANGED <<clock, pc, order, nassign, draftvars, purevars, multivars>>

----------------------------------------------------------------------------
(* ModulbankClient.create_payment_draft after the fill *)

\* the response statuses the model lets the server answer
Statuses == {200, 401, 500}

\* a PaymentResponse whose constructor does not keep the document
PaymentResponse_NoDocument(document) == [kind |-> "PaymentResponse", document |-> <<>>]

PaymentResponse(document) == [kind |-> "PaymentResponse", document |-> document]
Raised(exc) == [kind |-> "raised", exc |-> exc]

\* lines 304-305: exchange.document is read for the JSON body and posted; when
\* the read raises, the exception leaves create_payment_draft and nothing is posted
Post ==
    /\ call = "filled"
    /\ IF RenderRaises(doc)
       THEN /\ call' = "returned"
            /\ ret' = Raised("InvalidOperation")
            /\ UNCHANGED <<doc, nrender, out, req>>
       ELSE /\ call' = "posted"
            /\ nrender' = nrender + 1
            /\ out' = Rendered(doc)
            /\ req' = ClientBankExchange_document(doc)
            /\ doc' = DocAfterDocument(doc)
            /\ UNCHANGED ret
    /\ UNCHANGED <<clock, pc, order, nassign, status, rbody, purevars, multivars>>

\* the server answers with a status and a body that parses as JSON or does not
Respond(s, b) ==
    /\ call = "posted"
    /\ call' = "responded"
    /\ status' = s
    /\ rbody' = b
    /\ UNCHANGED <<clock, pc, doc, order, nassign, nrender, out, req, ret, purevars, multivars>>

\* a return that hands the posted text to the PaymentResponse instead of reading
\* exchange.document again
Return_PostedText ==
    /\ call = "responded"
    /\ call' = "returned"
    /\ ret' = IF status = 401 THEN Raised("NotAuthorizedModulbankException")
              ELSE IF status # 200 THEN Raised("UnexpectedResponseStatusModulbankException")
              ELSE IF rbody # "json" THEN Raised("UnexpectedResponseBodyModulbankException")
              ELSE PaymentResponse(req)
    /\ UNCHANGED <<clock, pc, doc, order, nassign, nrender, out, req, status, rbody, purevars, multivars>>

\* lines 306-314: 401 and every other non-200 status raise; on 200 r.json() is
\* evaluated first and, when it parses, exchange.document is read a second time
\* for the PaymentResponse
Return ==
    /\ call = "responded"
    /\ call' = "returned"
    /\ IF status = 401
       THEN /\ ret' = Raised("NotAuthorizedModulbankException")
            /\ UNCHANGED <<doc, nrender, out>>
       ELSE IF status # 200
       THEN /\ ret' = Raised("UnexpectedResponseStatusModulbankException")
            /\ UNCHANGED <<doc, nrender, out>>
       ELSE IF rbody # "json"
       THEN /\ ret' = Raised("UnexpectedResponseBodyModulbankException")
            /\ UNCHANGED <<doc, nrender, out>>
       ELSE /\ nrender' = nrender + 1
            /\ out' = Rendered(doc)
            /\ ret' = PaymentResponse(ClientBankExchange_document(doc))
            /\ doc' = DocAfterDocument(doc)
    /\ UNCHANGED <<clock, pc, order, nassign, req, status, rbody, purevars, multivars>>

Next ==
    \/ Tick
    \/ GeneralDate
    \/ GeneralTime
    \/ FilterBegin
    \/ FilterEnd
    \/ RestInit
    \/ \E t \in AssignTargets, v \in AssignValues : Assign(t[1], t[2], v)
    \/ \E o \in Orders : Fill(o)
    \/ Render
    \/ Post
    \/ \E s \in Statuses, b \in {"json", "garbage"} : Respond(s, b)
    \/ Return

Spec == Init /\ [][Next]_vars

----------------------------------------------------------------------------
(* The field formatter on its own: one value in a section of one field *)

\* decimals of the harness have coefficients 0..MaxCoeff and 0..MaxScale decimal places
MaxCoeff == 125
MaxScale == 4

\* the values given to the formatter: every kind of value a field can hold
FormatValues ==
    {None, DecimalInfinity, Str(""), Str("abc"), Str("12,5")}
    \cup {Date(y, m, d) : y \in {2016, 2017}, m \in 1..12, d \in {1, 9, 10, 28}}
    \cup {Time(h, mi, s) : h \in 0..23, mi \in {0, 5, 59}, s \in {0, 9, 59}}
    \cup {Decimal(neg, c, sc) : neg \in BOOLEAN, c \in 0..MaxCoeff, sc \in 0..MaxScale}
    \cup {Decimal(FALSE, 630170005, 3), Decimal(FALSE, 10000, 2)}
    \cup {PyInt(n) : n \in 0..3}
    \cup {PyFloat(w, t) : w \in {0, 100}, t \in {0, 5}}

\* the field of the harness section
TheField == "Summa"

\* a section whose one declared field, mandatory or not, holds value
InitFormat ==
    /\ InitDocument
    /\ InitCalls
    /\ input \in [value : FormatValues, mandatory : BOOLEAN]
    /\ result = NoResult

Returned(text) == [kind |-> "text", text |-> text]

\* the section's document property is read
FormatField ==
    /\ result = NoResult
    /\ result' =
           IF FormatRaises(input.value)
           THEN Raised("InvalidOperation")
           ELSE Returned(BaseSection_document(<<TheField>>,
                    IF input.mandatory THEN <<TheField>> ELSE <<>>,
                    [f \in {TheField} |-> input.value]))
    /\ UNCHANGED <<clock, pc, doc, order, nassign, nrender, out, draftvars, input, multivars>>

NextFormat == FormatField

SpecFormat == InitFormat /\ [][NextFormat]_vars

----------------------------------------------------------------------------
(* Contractor on its own: construction, then a read of kpp *)

\* the keys of an operation's JSON object that Contractor.__init__ looks at
ObjKeys ==
    { "contragentName", "contragentInn", "contragentKpp",
      "contragentBankAccountNumber", "contragentBankName", "contragentBankBic" }
BankKeys == {"contragentBankAccountNumber", "contragentBankName", "contragentBankBic"}

\* the KPP values of the harness: null, empty, a KPP
KppValues == {None, Str(""), Str("771543001")}

\* the JSON objects of the harness: any subset of the keys, contragentKpp with any
\* of the KPP values, every other key with a string
Objs ==
    { [k \in ks |-> IF k = "contragentKpp" THEN kv ELSE Str("x")] :
          ks \in SUBSET ObjKeys, kv \in KppValues }

\* a dict is truthy when it is not empty; None is not
Truthy(obj) == obj # None /\ DOMAIN obj # {}

\* a or None
OrNone(a) == IF a = Str("") THEN None ELSE a

\* the attributes Contractor.__init__ leaves on self, or the KeyError of lines
\* 401-403 when some but not all of the bank keys are in obj
Contractor_init(obj, name, inn, kpp, bank) ==
    IF Truthy(obj)
    THEN IF BankKeys \cap DOMAIN obj # {} /\ ~(BankKeys \subseteq DOMAIN obj)
         THEN Raised("KeyError")
         ELSE LET has == [name |-> "contragentName" \in DOMAIN obj,
                          inn |-> "contragentInn" \in DOMAIN obj,
                          kpp |-> "contragentKpp" \in DOMAIN obj,
                          bank |-> BankKeys \subseteq DOMAIN obj]
              IN  [a \in {x \in {"name", "inn", "kpp", "bank"} : has[x]} |->
                      CASE a = "name" -> obj["contragentName"]
                        [] a = "inn" -> obj["contragentInn"]
                        [] a = "kpp" -> obj["contragentKpp"]
                        [] a = "bank" ->
                              BankShort(OrNone(obj["contragentBankAccountNumber"]),
                                        OrNone(obj["contragentBankName"]),
                                        OrNone(obj["contragentBankBic"]), None)]
    ELSE Contractor(name, inn, kpp, bank)

\* a read of the kpp property of the object with attributes self: the attribute
\* __kpp exists only if the constructor assigned it
Contractor_kpp_read(self) ==
    IF "kpp" \in DOMAIN self
    THEN [kind |-> "value", value |-> Contractor_kpp(self)]
    ELSE Raised("AttributeError")

\* the arguments of the constructor: obj, and kpp among the keyword arguments
InitContractor ==
    /\ InitDocument
    /\ InitCalls
    /\ input \in [obj : {None} \cup Objs, kpp : KppValues]
    /\ result = NoResult

\* Contractor(obj, name=..., inn=..., kpp=..., bank=...)
Construct ==
    /\ result = NoResult
    /\ LET self == Contractor_init(input.obj, Str("x"), Str("x"), input.kpp, None)
       IN  result' = IF "kind" \in DOMAIN self
                     THEN self
                     ELSE [kind |-> "Contractor", self |-> self, kpp |-> NoResult]
    /\ UNCHANGED <<clock, pc, doc, order, nassign, nrender, out, draftvars, input, multivars>>

\* contractor.kpp
ReadKpp ==
    /\ result.kind = "Contractor"
    /\ result.kpp = NoResult
    /\ result' = [result EXCEPT !.kpp = Contractor_kpp_read(result.self)]
    /\ UNCHANGED <<clock, pc, doc, order, nassign, nrender, out, draftvars, input, multivars>>

NextContractor ==
    \/ Construct
    \/ ReadKpp

SpecContractor == InitContractor /\ [][NextContractor]_vars

----------------------------------------------------------------------------
(* Several create_payment_draft calls on one client, interleaved *)

\* the calls are numbered 1..MaxCalls
MaxCalls == 2

\* ClientBankExchange() with the clock at instant t throughout
ClientBankExchange_init(t) ==
    [sec \in Range(SectionNames) |->
        CASE sec = "ObshchieSvedeniya" ->
                 [GeneralSection_init(Today(t)) EXCEPT !["VremyaSozdaniya"] = NowTime(t)]
          [] sec = "UsloviyaOtbora" ->
                 [FilterSection_init(Today(t)) EXCEPT !["DataKonca"] = Today(t)]
          [] sec = "SekciyaOstatkov" -> BalancesSection_init
          [] sec = "SekciyaPlatezhnogoDokumenta" -> DocumentSection_init]

\* an allocator that hands every caller the same object
NewRef_Shared(h) == 1

\* the reference of a newly allocated object: one no live object has
NewRef(h) == Len(h) + 1

\* the heap with object d at reference ref
Store(h, ref, d) == IF ref \in DOMAIN h THEN [h EXCEPT ![ref] = d] ELSE Append(h, d)

\* a call that has not started
IdleCall == [cpc |-> "idle", order |-> NoOrder, exchange |-> 0, posted |-> <<>>]

InitMulti ==
    /\ InitDocument
    /\ InitHarness
    /\ heap = <<>>
    /\ calls = [c \in 1..MaxCalls |-> IdleCall]

\* line 302 of call c, given order o: exchange = ClientBankExchange()
CallStart(c, o) ==
    /\ calls[c].cpc = "idle"
    /\ LET ref == NewRef(heap)
       IN  /\ heap' = Store(heap, ref, ClientBankExchange_init(clock))
           /\ calls' = [calls EXCEPT ![c] =
                  [cpc |-> "constructed", order |-> o, exchange |-> ref, posted |-> <<>>]]
    /\ UNCHANGED <<clock, pc, doc, order, nassign, nrender, out, draftvars, purevars>>

\* line 303 of call c: self.__fill_client_bank_exchange(order, exchange)
CallFill(c) ==
    /\ calls[c].cpc = "constructed"
    /\ heap' = [heap EXCEPT ![calls[c].exchange] = fill_client_bank_exchange(calls[c].order, @)]
    /\ calls' = [calls EXCEPT ![c].cpc = "filled"]
    /\ UNCHANGED <<clock, pc, doc, order, nassign, nrender, out, draftvars, purevars>>

\* lines 304-305 of call c: exchange.document is read and posted, or the read raises
CallPost(c) ==
    /\ calls[c].cpc = "filled"
    /\ calls' = IF RenderRaises(heap[calls[c].exchange])
                THEN [calls EXCEPT ![c].cpc = "raised"]
                ELSE [calls EXCEPT ![c].cpc = "posted",
                         ![c].posted = ClientBankExchange_document(heap[calls[c].exchange])]
    /\ UNCHANGED <<clock, pc, doc, order, nassign, nrender, out, draftvars, purevars, heap>>

NextMulti ==
    \/ \E c \in 1..MaxCalls, o \in Orders : CallStart(c, o)
    \/ \E c \in 1..MaxCalls : CallFill(c)
    \/ \E c \in 1..MaxCalls : CallPost(c)

SpecMulti == InitMulti /\ [][NextMulti]_vars

----------------------------------------------------------------------------
(* Lengths in characters *)

\* the number of characters of each Cyrillic identifier and literal of the source,
\* by its transliteration
SourceLen ==
    [Data |-> 4, DataKonca |-> 9, DataNachala |-> 10, DataOtsylkiDok |-> 14,
     DataPostupilo |-> 13, DataSozdaniya |-> 12, DataSpisano |-> 11,
     Dokument |-> 8, DopolnUsloviya |-> 13, Kod |-> 3, Kodirovka |-> 9,
     KonechnyyOstatok |-> 15, KvitanciyaData |-> 13, KvitanciyaSoderzhanie |-> 19,
     KvitanciyaVremya |-> 14, NachalnyyOstatok |-> 16, NaznacheniePlatezha |-> 17,
     NaznacheniePlatezha1 |-> 18, NaznacheniePlatezha2 |-> 18,
     NaznacheniePlatezha3 |-> 18, NaznacheniePlatezha4 |-> 18,
     NaznacheniePlatezha5 |-> 18, NaznacheniePlatezha6 |-> 18, Nomer |-> 5,
     NomerSchetaPostavshchika |-> 20, OKATO |-> 5, ObshchieSvedeniya |-> 13,
     Ocherednost |-> 11, Otpravitel |-> 11, Platelshchik |-> 10,
     Platelshchik1 |-> 11, Platelshchik2 |-> 11, Platelshchik3 |-> 11,
     Platelshchik4 |-> 11, PlatelshchikBIK |-> 13, PlatelshchikBank1 |-> 15,
     PlatelshchikBank2 |-> 15, PlatelshchikINN |-> 13, PlatelshchikKPP |-> 13,
     PlatelshchikKorschet |-> 17, PlatelshchikRaschSchet |-> 18,
     PlatelshchikSchet |-> 14, PlatezhPoPredst |-> 14, PokazatelDaty |-> 14,
     PokazatelKBK |-> 13, PokazatelNomera |-> 16, PokazatelOsnovaniya |-> 19,
     PokazatelPerioda |-> 17, PokazatelTipa |-> 14, Poluchatel |-> 10,
     Poluchatel1 |-> 11, Poluchatel2 |-> 11, Poluchatel3 |-> 11,
     Poluchatel4 |-> 11, PoluchatelBIK |-> 13, PoluchatelBank1 |-> 15,
     PoluchatelBank2 |-> 15, PoluchatelINN |-> 13, PoluchatelKPP |-> 13,
     PoluchatelKorschet |-> 17, PoluchatelRaschSchet |-> 18,
     PoluchatelSchet |-> 14, RaschSchet |-> 8, SekciyaOstatkov |-> 14,
     SekciyaPlatezhnogoDokumenta |-> 25, SrokAkcepta |-> 11, SrokPlatezha |-> 11,
     StatusSostavitelya |-> 17, Summa |-> 5, UslovieOplaty1 |-> 14,
     UslovieOplaty2 |-> 14, UslovieOplaty3 |-> 14, UsloviyaOtbora |-> 13,
     VersiyaFormata |-> 13, VidAkkreditiva |-> 14, VidOplaty |-> 9,
     VidPlatezha |-> 10, VremyaSozdaniya |-> 13, VsegoPostupilo |-> 14,
     VsegoSpisano |-> 12, SekciyaDokument |-> 14, KonecDokumenta |-> 14,
     KonecFayla |-> 10]
    @@ ("Platezhnoe poruchenie" :> 19)

\* the number of characters of a token of a text
CharLen(token) == IF token \in DOMAIN SourceLen THEN SourceLen[token] ELSE Len(token)

----------------------------------------------------------------------------
(* The four API methods on a response: status check, then the body *)

Methods == {"accounts", "balance", "operations", "create_payment_draft"}

\* the response statuses of the harness
ApiStatuses == {200, 201, 204, 400, 401, 403, 404, 500}

\* the response bodies of the harness: the data the method expects, a text that is
\* not JSON, and JSON whose entity holds a value that cannot be converted
Bodies ==
    {"valid", "not_json", "bad_category", "bad_currency", "bad_status", "bad_amount",
     "bad_date"}

\* a status check that knows no 401
StatusCheck_No401(s) ==
    IF s # 200 THEN Raised("UnexpectedResponseStatusModulbankException") ELSE NoReturn

\* the two tests of r.status_code each method makes right after the post
\* (lines 204-207, 229-232, 259-262, 306-309): what they raise, NoReturn if nothing
StatusCheck(s) ==
    IF s = 401 THEN Raised("NotAuthorizedModulbankException")
    ELSE IF s # 200 THEN Raised("UnexpectedResponseStatusModulbankException")
    ELSE NoReturn

\* the result entities of method m
Result(m) == [kind |-> "result", of |-> m]

\* the try block of each method on body b: r.json() raises ValueError on a text
\* that is not JSON, and the except clause turns it into the body exception; the
\* entity constructors (BankAccount, Operation) raise
\* UnexpectedValueModulbankException, which is no ValueError and passes through;
\* balance converts r.text with Decimal and raises the value exception itself
ParseBody(m, b) ==
    CASE m = "balance" ->
             IF b = "valid" THEN Result(m) ELSE Raised("UnexpectedValueModulbankException")
      [] m = "create_payment_draft" ->
             IF b = "not_json" THEN Raised("UnexpectedResponseBodyModulbankException")
             ELSE Result(m)
      [] m \in {"accounts", "operations"} ->
             IF b = "not_json" THEN Raised("UnexpectedResponseBodyModulbankException")
             ELSE IF b = "valid" THEN Result(m)
             ELSE Raised("UnexpectedValueModulbankException")

\* a method was called and the server has answered
InitApi ==
    /\ InitDocument
    /\ InitCalls
    /\ input \in [method : Methods, status : ApiStatuses, body : Bodies]
    /\ result = NoResult

\* the status tests: a raise ends the call, else the call goes on to the body
CheckStatus ==
    /\ result = NoResult
    /\ result' = IF StatusCheck(input.status) = NoReturn
                 THEN [kind |-> "checked", parsed |-> FALSE, ret |-> NoReturn]
                 ELSE [kind |-> "done", parsed |-> FALSE, ret |-> StatusCheck(input.status)]
    /\ UNCHANGED <<clock, pc, doc, order, nassign, nrender, out, draftvars, input, multivars>>

\* the try block and the return
ReadBody ==
    /\ result.kind = "checked"
    /\ result' = [kind |-> "done", parsed |-> TRUE, ret |-> ParseBody(input.method, input.body)]
    /\ UNCHANGED <<clock, pc, doc, order, nassign, nrender, out, draftvars, input, multivars>>

NextApi ==
    \/ CheckStatus
    \/ ReadBody

SpecApi == InitApi /\ [][NextApi]_vars

----------------------------------------------------------------------------
(* A client and the criteria of an operations call *)

\* the limit of ModulbankClient.__init__
PageSizeLimit == 50
\* the page sizes of the harness run from -MaxExcess to PageSizeLimit + MaxExcess
MaxExcess == 3
\* the page numbers of the harness are 0..MaxPageNo
MaxPageNo == 3

\* SearchOptions(category, date_from, date_till, page)
SearchOptions(category, date_from, date_till, page) ==
    [category |-> category, date_from |-> date_from, date_till |-> date_till, page |-> page]

\* the search arguments of the harness: None, or options with any category, dates
\* and page, None included
Searches ==
    {None} \cup
    { SearchOptions(c, f, t, pg) :
          c \in {None, Str("Debet"), Str("Credit")},
          f \in {None, Date(2016, 4, 1)},
          t \in {None, Date(2017, 1, 1)},
          pg \in {None} \cup {PyInt(n) : n \in 0..MaxPageNo} }

\* a dict with key k bound to v
WithKey(dict, k, v) == [x \in DOMAIN dict \cup {k} |-> IF x = k THEN v ELSE dict[x]]
\* del dict[k]
WithoutKey(dict, k) == [x \in DOMAIN dict \ {k} |-> dict[x]]
EmptyDict == [x \in {} |-> None]

\* SearchOptions.to_dict: a category and the dates when truthy, the page unless None
to_dict(so) ==
    LET c1 == IF so.category # None
              THEN WithKey(EmptyDict, "category", so.category) ELSE EmptyDict
        c2 == IF so.date_from # None
              THEN WithKey(c1, "from", Str(PyStr(so.date_from))) ELSE c1
        c3 == IF so.date_till # None
              THEN WithKey(c2, "till", Str(PyStr(so.date_till))) ELSE c2
    IN  IF so.page # None THEN WithKey(c3, "page", so.page) ELSE c3

\* a patch that leaves the page in the criteria
patch_paging_KeepPage(param, page_size) ==
    IF "page" \notin DOMAIN param THEN param
    ELSE WithKey(WithKey(param, "skip", PyInt(param["page"].n * page_size)),
                 "records", PyInt(page_size))

\* ModulbankClient.__patch_paging
patch_paging(param, page_size) ==
    IF "page" \notin DOMAIN param THEN param
    ELSE WithoutKey(WithKey(WithKey(param, "skip", PyInt(param["page"].n * page_size)),
                            "records", PyInt(page_size)), "page")

\* the arguments: the page size of the client, the search of the operations call
InitPaging ==
    /\ InitDocument
    /\ InitCalls
    /\ input \in [page_size : (0 - MaxExcess)..(PageSizeLimit + MaxExcess), search : Searches]
    /\ result = NoResult

\* ModulbankClient(token, page_size=...): only a page size above the limit raises
NewClient ==
    /\ result = NoResult
    /\ result' = IF input.page_size > PageSizeLimit
                 THEN Raised("ValueError")
                 ELSE [kind |-> "client", page_size |-> input.page_size]
    /\ UNCHANGED <<clock, pc, doc, order, nassign, nrender, out, draftvars, input, multivars>>

\* client.operations(account_id, search) up to the post: the criteria it sends
Operations ==
    /\ result.kind = "client"
    /\ LET search == IF input.search = None
                     THEN SearchOptions(None, None, None, PyInt(0))
                     ELSE input.search
       IN  result' = [kind |-> "criteria", page_size |-> result.page_size,
                      criteria |-> patch_paging(to_dict(search), result.page_size)]
    /\ UNCHANGED <<clock, pc, doc, order, nassign, nrender, out, draftvars, input, multivars>>

NextPaging ==
    \/ NewClient
    \/ Operations

SpecPaging == InitPaging /\ [][NextPaging]_vars

----------------------------------------------------------------------------
(* NotifyRequest.check_signature *)

\* In this part a string is a sequence of characters, so that it can be cut and
\* its letters' case changed.

\* the number of characters of the token that enter the signed message
PrefixLen == 10

\* str.lower() and str.upper() of one character of the harness alphabet
LowerChar(ch) == CASE ch = "A" -> "a" [] ch = "B" -> "b" [] ch = "C" -> "c" [] OTHER -> ch
UpperChar(ch) == CASE ch = "a" -> "A" [] ch = "b" -> "B" [] ch = "c" -> "C" [] OTHER -> ch
Lower(str) == [i \in 1..Len(str) |-> LowerChar(str[i])]
Upper(str) == [i \in 1..Len(str) |-> UpperChar(str[i])]

\* hashlib.sha1(s.encode()).hexdigest(): a text in lower case that is different
\* for different messages (no two messages of the harness collide); each
\* character of the message gives its lower-case form and a mark of its case
RECURSIVE Sha1Hex(_)
Sha1Hex(msg) ==
    IF msg = <<>> THEN <<>>
    ELSE <<LowerChar(Head(msg)), IF Head(msg) = LowerChar(Head(msg)) THEN "0" ELSE "1">>
         \o Sha1Hex(Tail(msg))

\* a prefix that is the whole token
TokenPrefix_Whole(token) == token

\* token[:10]
TokenPrefix(token) == SubSeq(token, 1, IF Len(token) < PrefixLen THEN Len(token) ELSE PrefixLen)

\* NotifyRequest.check_signature for a notification that has an operation with
\* an id and a signature
check_signature(n, token) ==
    LET msg == TokenPrefix(token) \o <<"&">> \o n.operation_id
        digest == Sha1Hex(msg)
    IN  Lower(digest) = Lower(n.signature)

\* the tokens of the harness: ten-character prefixes that differ in a first, a
\* last or a letter's case, each alone and with characters after it, and two
\* tokens shorter than ten characters
Prefixes ==
    { <<"a", "1", "2", "3", "4", "5", "6", "7", "8", "b">>,
      <<"A", "1", "2", "3", "4", "5", "6", "7", "8", "b">>,
      <<"a", "1", "2", "3", "4", "5", "6", "7", "8", "c">>,
      <<"c", "1", "2", "3", "4", "5", "6", "7", "8", "b">> }
Tokens ==
    {p \o suf : p \in Prefixes, suf \in {<<>>, <<"b">>, <<"c", "9">>}}
    \cup {<<"a", "1">>, <<"a">>}

OperationIds == {<<"7">>, <<"8">>, <<"a", "b">>}

\* the signatures of the harness: the digest of every message, in lower and in
\* upper case and as signed with a whole token, and a text that is no digest
Signatures ==
    {Sha1Hex(TokenPrefix(t) \o <<"&">> \o i) : t \in Tokens, i \in OperationIds}
    \cup {Upper(Sha1Hex(TokenPrefix(t) \o <<"&">> \o i)) : t \in Tokens, i \in OperationIds}
    \cup {Sha1Hex(t \o <<"&">> \o i) : t \in Tokens, i \in OperationIds}
    \cup {<<"0">>}

\* the notifications of the harness
Notifications ==
    [operation_id : OperationIds, signature : Signatures, inn : {Str(""), Str("1111111111")}]

InitNotify ==
    /\ InitDocument
    /\ InitCalls
    /\ input \in [n : Notifications, token : Tokens]
    /\ result = NoResult

\* nr.check_signature(token)
CheckSignature ==
    /\ result = NoResult
    /\ result' = [kind |-> "verdict", ok |-> check_signature(input.n, input.token)]
    /\ UNCHANGED <<clock, pc, doc, order, nassign, nrender, out, draftvars, input, multivars>>

NextNotify == CheckSignature

SpecNotify == InitNotify /\ [][NextNotify]_vars

----------------------------------------------------------------------------
(* Operation: the budgetary and tax part *)

\* the JSON keys BudgetaryAndTax.__init__ reads
BudgetaryKeys ==
    {"kbk", "oktmo", "paymentBasis", "taxCode", "taxDocNum", "taxDocDate", "payerStatus", "uin"}

\* the last key Operation.__init__ tests: one tab character
TabKey == "\t"

\* the keys whose presence makes Operation.__init__ build a BudgetaryAndTax
TestedKeys ==
    {"kbk", "oktmo", "paymentBasis", "taxCode", "taxDocNum", "taxDocDate", "payerStatus", TabKey}

\* BudgetaryAndTax(obj): an attribute for each of its keys the object has
BudgetaryAndTax(obj) ==
    [kind |-> "BudgetaryAndTax",
     attrs |-> [k \in (DOMAIN obj) \cap BudgetaryKeys |-> obj[k]]]

\* Operation(obj), for an object with an id and budgetary keys only
Operation_init(obj) ==
    [kind |-> "Operation",
     operation_id |-> IF "id" \in DOMAIN obj THEN obj["id"] ELSE None,
     budgetary_and_tax |->
        IF (DOMAIN obj) \cap TestedKeys # {} THEN BudgetaryAndTax(obj) ELSE None]

\* the operation objects of the harness: any of the keys, with one of two values
OperationObjs ==
    {[k \in K |-> v] : K \in SUBSET (BudgetaryKeys \cup {TabKey, "id"}),
                       v \in {Str("1"), Str("2")}}

InitOperation ==
    /\ InitDocument
    /\ InitCalls
    /\ input \in OperationObjs
    /\ result = NoResult

\* Operation(obj)
NewOperation ==
    /\ result = NoResult
    /\ result' = Operation_init(input)
    /\ UNCHANGED <<clock, pc, doc, order, nassign, nrender, out, draftvars, input, multivars>>

NextOperation == NewOperation

SpecOperation == InitOperation /\ [][NextOperation]_vars

----------------------------------------------------------------------------
(* Reading a rendered text back *)

Gen == "ObshchieSvedeniya"
Flt == "UsloviyaOtbora"
Bal == "SekciyaOstatkov"
Pay == "SekciyaPlatezhnogoDokumenta"
SectionSet == Range(SectionNames)

\* the lines of a text: the tokens between newlines, a last unterminated line included
RECURSIVE LinesFrom(_, _)
LinesFrom(text, i) ==
    IF i > Len(text) THEN <<>>
    ELSE IF \E j \in i..Len(text) : text[j] = "\n"
    THEN LET j == CHOOSE j \in i..Len(text) :
                      text[j] = "\n" /\ \A k \in i..(j - 1) : text[k] # "\n"
         IN  <<SubSeq(text, i, j - 1)>> \o LinesFrom(text, j + 1)
    ELSE <<SubSeq(text, i, Len(text))>>

Lines(text) == LinesFrom(text, 1)

\* every line of the text ends with a newline
Terminated(text) == text = <<>> \/ text[Len(text)] = "\n"

\* the field names that start the lines
StartNames(lines) == {lines[i][1] : i \in 1..Len(lines)}

\* the current field state has been rendered: out holds its texts
IsRendered == nrender > 0

\* the document is as its constructor left it
Fresh == pc = "ready" /\ nassign = 0 /\ order = NoOrder

Constructed == pc = "ready"

\* the text of a field's value, the empty text for an absent value
ValueText(v) == IF v = None THEN "" ELSE FormatValue(v)

\* the non-mandatory fields of section sec that hold a value, in declared order
PresentOptional(sec) ==
    LET Test(f) == f \notin Range(MandatoryFields(sec)) /\ doc[sec][f] # None
    IN  SelectSeq(Fields(sec), Test)

\* what the two-pass rule says section sec renders to, line by line
ExpectedLines(sec) ==
    LET m == MandatoryFields(sec)
        o == PresentOptional(sec)
    IN  [i \in 1..(Len(m) + Len(o)) |->
            IF i <= Len(m)
            THEN <<m[i], "=", ValueText(doc[sec][m[i]])>>
            ELSE <<o[i - Len(m)], "=", ValueText(doc[sec][o[i - Len(m)]])>>]

----------------------------------------------------------------------------
(* The claims *)

\* C1: every section renders to one name=value line per mandatory field, in the
\* order of the mandatory list, followed by one line per non-mandatory field that
\* holds a value, in the order of the declared list; each line ends with a newline
\* and every mandatory line precedes every optional line.
C1_TwoPassRender ==
    IsRendered =>
        \A sec \in SectionSet :
            LET lines == Lines(out[sec])
                mandatory == Range(MandatoryFields(sec))
            IN  /\ lines = ExpectedLines(sec)
                /\ Terminated(out[sec])
                /\ \A i \in 1..(Len(lines) - 1) :
                       lines[i][1] \notin mandatory => lines[i + 1][1] \notin mandatory

\* a rendered Payment section with blank mandatory lines, a mandatory field with a
\* value and an optional field, declared before mandatory ones, with a value
C1_Witness ==
    /\ IsRendered
    /\ doc[Pay]["Summa"] # None
    /\ doc[Pay]["KvitanciyaData"] # None
    /\ doc[Pay]["Nomer"] = None

\* C2: a mandatory field whose value is absent, never set or set to None, renders
\* as the line <Name>= with an empty value; the line is never left out.
C2_MandatoryBlankLine ==
    IsRendered =>
        \A sec \in SectionSet :
            LET lines == Lines(out[sec])
            IN  \A name \in Range(MandatoryFields(sec)) :
                    doc[sec][name] = None =>
                        \E i \in 1..Len(lines) : lines[i] = <<name, "=", "">>

\* a rendered document whose sender, a mandatory field with a default, was set to None
C2_Witness ==
    /\ IsRendered
    /\ doc[Gen]["Otpravitel"] = None

\* C3: an optional field whose value is absent has no line in the rendered section.
C3_OptionalAbsentNoLine ==
    IsRendered =>
        \A sec \in SectionSet :
            LET names == StartNames(Lines(out[sec]))
            IN  \A name \in Range(Fields(sec)) \ Range(MandatoryFields(sec)) :
                    doc[sec][name] = None => name \notin names

\* a rendered document, after an assignment, whose optional Документ is absent
\* while the section renders other lines
C3_Witness ==
    /\ IsRendered
    /\ nassign > 0
    /\ doc[Flt]["Dokument"] = None
    /\ out[Flt] # <<>>

\* C4: no field name starts more than one line of a rendered section: a mandatory
\* field is emitted exactly once, also when it holds a value, an optional field
\* at most once.
C4_NoDuplicateLine ==
    IsRendered =>
        \A sec \in SectionSet :
            LET lines == Lines(out[sec])
            IN  /\ \A i, j \in 1..Len(lines) : lines[i][1] = lines[j][1] => i = j
                /\ Range(MandatoryFields(sec)) \subseteq StartNames(lines)

\* a rendered Payment section whose mandatory Сумма was assigned a value
C4_Witness ==
    /\ IsRendered
    /\ nassign > 0
    /\ doc[Pay]["Summa"] # None

\* C5: rendering is pure and idempotent: a render leaves every field value
\* unchanged, and a render of a field state that was rendered before, with no
\* assignment in between, returns the same text.
C5_RenderPure ==
    [][Render => (doc' = doc /\ (IsRendered => out' = out))]_vars

\* the same field state rendered twice
C5_Witness ==
    /\ nrender >= 2
    /\ nassign > 0

\* C6: the rendered document is the line 1CClientBankExchange, the General, Filter
\* and Balances renders, the line СекцияДокумент=Платежное поручение, the Payment
\* render, the line КонецДокумента and the token КонецФайла; every line but that last
\* token ends with a newline and nothing follows the token.
C6_DocumentStructure ==
    IsRendered =>
        LET text == out["document"]
            lines == Lines(text)
        IN  /\ text = <<"1CClientBankExchange", "\n">>
                      \o out[Gen] \o out[Flt] \o out[Bal]
                      \o <<"SekciyaDokument", "=", "Platezhnoe poruchenie", "\n">>
                      \o out[Pay]
                      \o <<"KonecDokumenta", "\n">>
                      \o <<"KonecFayla">>
            /\ text[Len(text)] = "KonecFayla"
            /\ text[Len(text) - 1] = "\n"
            /\ lines[Len(lines)] = <<"KonecFayla">>
            /\ lines[Len(lines) - 1] = <<"KonecDokumenta">>

\* a rendered document all four of whose sections render lines
C6_Witness ==
    /\ IsRendered
    /\ out[Bal] # <<>>
    /\ out[Pay] # <<>>

\* C7: right after construction the General section holds the three literals, a
\* creation date and a creation time read from the clock, and no Получатель; the
\* Filter section holds its two date bounds and nothing else; every field of the
\* Balances and Payment sections is absent.
C7_FreshDefaults ==
    Fresh =>
        /\ DOMAIN doc = SectionSet
        /\ \A sec \in SectionSet : DOMAIN doc[sec] = Range(Fields(sec))
        /\ doc[Gen]["VersiyaFormata"] = Str("1.02")
        /\ doc[Gen]["Kodirovka"] = Str("Windows")
        /\ doc[Gen]["Otpravitel"] = Str("modulbank_python")
        /\ \E c \in 0..clock : doc[Gen]["DataSozdaniya"] = Today(c)
        /\ \E c \in 0..clock : doc[Gen]["VremyaSozdaniya"] = NowTime(c)
        /\ doc[Gen]["Poluchatel"] = None
        /\ \E c \in 0..clock : doc[Flt]["DataNachala"] = Today(c)
        /\ \E c \in 0..clock : doc[Flt]["DataKonca"] = Today(c)
        /\ doc[Flt]["RaschSchet"] = None
        /\ doc[Flt]["Dokument"] = None
        /\ \A name \in DOMAIN doc[Bal] : doc[Bal][name] = None
        /\ \A name \in DOMAIN doc[Pay] : doc[Pay][name] = None

\* a document just constructed while the clock advanced
C7_Witness ==
    /\ Fresh
    /\ nrender = 0
    /\ doc[Gen]["VremyaSozdaniya"] # NowTime(clock)

\* C8: after construction the Filter section's ДатаНачала and ДатаКонца both hold
\* the date of the construction: they are equal to each other and to the General
\* section's ДатаСоздания, whenever the construction starts.
C8_BoundsAreOneDate ==
    Fresh =>
        /\ doc[Flt]["DataNachala"] = doc[Flt]["DataKonca"]
        /\ doc[Flt]["DataNachala"] = doc[Gen]["DataSozdaniya"]

\* C9: the Balances section has no mandatory field and no default: a fresh document
\* and a document filled by the mapper hold no Balances value; while no Balances
\* field holds a value the section renders the empty text and the document goes
\* from the Filter lines straight to the СекцияДокумент line; a Balances line is
\* rendered only for a field that holds a value.
C9_BalancesEmpty ==
    /\ BalancesSection_mandatory_fields = <<>>
    /\ (Fresh \/ order # NoOrder) => \A name \in DOMAIN doc[Bal] : doc[Bal][name] = None
    /\ IsRendered =>
        LET lines == Lines(out[Bal])
        IN  /\ (\A name \in DOMAIN doc[Bal] : doc[Bal][name] = None) =>
                   /\ out[Bal] = <<>>
                   /\ Len(Lines(out["document"])) =
                          Len(Lines(out[Gen])) + Len(Lines(out[Flt]))
                          + Len(Lines(out[Pay])) + 4
            /\ \A i \in 1..Len(lines) : doc[Bal][lines[i][1]] # None
            /\ Len(lines) = Cardinality({name \in DOMAIN doc[Bal] : doc[Bal][name] # None})

\* a document filled by the mapper and rendered
C9_Witness ==
    /\ order # NoOrder
    /\ IsRendered
    /\ out[Bal] = <<>>

\* the Payment section holds the attributes of order o
PaymentCarries(dict, o) ==
    /\ dict["Nomer"] = o.doc_num
    /\ dict["Data"] = o.date
    /\ dict["DataSpisano"] = o.date
    /\ dict["Summa"] = o.amount
    /\ dict["NaznacheniePlatezha"] = o.purpose
    /\ dict["VidOplaty"] = o.payment_type
    /\ dict["Ocherednost"] = o.priority
    /\ dict["Platelshchik"] = Str(o.payer.inn.s \o " " \o o.payer.name.s)
    /\ dict["PlatelshchikINN"] = o.payer.inn
    /\ dict["PlatelshchikKPP"] = Contractor_kpp(o.payer)
    /\ dict["PlatelshchikSchet"] = o.payer.bank.account
    /\ dict["PlatelshchikBank1"] = o.payer.bank.name
    /\ dict["PlatelshchikBIK"] = o.payer.bank.bic
    /\ dict["PlatelshchikKorschet"] = o.payer.bank.corr_acc
    /\ dict["Poluchatel"] = o.recipient.name
    /\ dict["PoluchatelINN"] = o.recipient.inn
    /\ dict["PoluchatelKPP"] = Contractor_kpp(o.recipient)
    /\ dict["PoluchatelSchet"] = o.recipient.bank.account
    /\ dict["PoluchatelBank1"] = o.recipient.bank.name
    /\ dict["PoluchatelBIK"] = o.recipient.bank.bic
    /\ dict["PoluchatelKorschet"] = o.recipient.bank.corr_acc

\* C10: fill populates two sections: after it the Filter section's РасчСчет is the
\* order's account_num and the Payment section holds the order's attributes; the
\* rendered document has the line РасчСчет=<account_num> among the Filter lines,
\* before the line СекцияДокумент=Платежное поручение.
C10_FillTwoSections ==
    order # NoOrder =>
        /\ doc[Flt]["RaschSchet"] = order.account_num
        /\ PaymentCarries(doc[Pay], order)
        /\ IsRendered =>
            LET lines == Lines(out["document"])
                first == 1 + Len(Lines(out[Gen]))
                last == first + Len(Lines(out[Flt]))
            IN  \E i \in (first + 1)..last :
                    /\ lines[i] = <<"RaschSchet", "=", order.account_num.s>>
                    /\ \E j \in (i + 1)..Len(lines) :
                           lines[j] = <<"SekciyaDokument", "=", "Platezhnoe poruchenie">>
                    /\ \A j \in 1..i : lines[j][1] # "SekciyaDokument"

\* a document filled with the second order and rendered
C10_Witness ==
    /\ order = OtherOrder
    /\ IsRendered
    /\ out[Flt] # <<>>

----------------------------------------------------------------------------
(* The table of the mapper *)

\* the attributes of a payment order that the mapper reads
OrderAttrs ==
    { "doc_num", "date", "amount", "purpose", "payment_type", "priority",
      "payer.name", "payer.inn", "payer.kpp", "payer.account", "payer.bank",
      "payer.bic", "payer.corr_acc",
      "recipient.name", "recipient.inn", "recipient.kpp", "recipient.account",
      "recipient.bank", "recipient.bic", "recipient.corr_acc" }

\* the value of attribute a of order o, as its property returns it
Attr(o, a) ==
    CASE a = "doc_num" -> o.doc_num
      [] a = "date" -> o.date
      [] a = "amount" -> o.amount
      [] a = "purpose" -> o.purpose
      [] a = "payment_type" -> o.payment_type
      [] a = "priority" -> o.priority
      [] a = "payer.name" -> o.payer.name
      [] a = "payer.inn" -> o.payer.inn
      [] a = "payer.kpp" -> IF o.payer.kpp \in {None, Str("")} THEN Str("0") ELSE o.payer.kpp
      [] a = "payer.account" -> o.payer.bank.account
      [] a = "payer.bank" -> o.payer.bank.name
      [] a = "payer.bic" -> o.payer.bank.bic
      [] a = "payer.corr_acc" -> o.payer.bank.corr_acc
      [] a = "recipient.name" -> o.recipient.name
      [] a = "recipient.inn" -> o.recipient.inn
      [] a = "recipient.kpp" ->
            IF o.recipient.kpp \in {None, Str("")} THEN Str("0") ELSE o.recipient.kpp
      [] a = "recipient.account" -> o.recipient.bank.account
      [] a = "recipient.bank" -> o.recipient.bank.name
      [] a = "recipient.bic" -> o.recipient.bank.bic
      [] a = "recipient.corr_acc" -> o.recipient.bank.corr_acc

\* no two attributes of o have the same value, absent ones aside: a field's value
\* then tells which attribute it came from
DistinctAttrs(o) ==
    \A a, b \in OrderAttrs : a # b /\ Attr(o, a) # None => Attr(o, a) # Attr(o, b)

\* the fields of a section that hold exactly the value v
HeldBy(dict, v) == {f \in DOMAIN dict : dict[f] = v}

\* the Payment fields the mapper copies attribute a into
Targets(a) ==
    CASE a = "doc_num" -> {"Nomer"}
      [] a = "date" -> {"Data", "DataSpisano"}
      [] a = "amount" -> {"Summa"}
      [] a = "purpose" -> {"NaznacheniePlatezha", "NaznacheniePlatezha1"}
      [] a = "payment_type" -> {"VidOplaty"}
      [] a = "priority" -> {"Ocherednost"}
      [] a = "payer.name" -> {}
      [] a = "payer.inn" -> {"PlatelshchikINN"}
      [] a = "payer.kpp" -> {"PlatelshchikKPP"}
      [] a = "payer.account" -> {"PlatelshchikSchet", "PlatelshchikRaschSchet"}
      [] a = "payer.bank" -> {"PlatelshchikBank1"}
      [] a = "payer.bic" -> {"PlatelshchikBIK"}
      [] a = "payer.corr_acc" -> {"PlatelshchikKorschet"}
      [] a = "recipient.name" -> {"Poluchatel"}
      [] a = "recipient.inn" -> {"PoluchatelINN"}
      [] a = "recipient.kpp" -> {"PoluchatelKPP"}
      [] a = "recipient.account" -> {"PoluchatelSchet", "PoluchatelRaschSchet"}
      [] a = "recipient.bank" -> {"PoluchatelBank1"}
      [] a = "recipient.bic" -> {"PoluchatelBIK"}
      [] a = "recipient.corr_acc" -> {"PoluchatelKorschet"}

\* C11 as stated: a one-to-one table.  After fill every attribute that has a value
\* is held unchanged by exactly one Payment field, and every Payment field that
\* holds a value holds the value of one attribute.
C11_OneToOne ==
    order # NoOrder /\ DistinctAttrs(order) =>
        /\ \A a \in OrderAttrs :
               Attr(order, a) # None => Cardinality(HeldBy(doc[Pay], Attr(order, a))) = 1
        /\ \A f \in DOMAIN doc[Pay] :
               doc[Pay][f] # None => \E a \in OrderAttrs : doc[Pay][f] = Attr(order, a)

\* C11, amended: the table is fixed but not one-to-one.  After fill the fields that
\* hold an attribute's value are exactly that attribute's targets: one field for
\* the number, amount, payment type, priority, INN, KPP ('0' when absent or empty),
\* bank name, BIC and correspondent account and for the recipient's name; two
\* fields for the date, the purpose and each bank account; none for the payer's
\* name, which appears only in Плательщик = "<inn> <name>", a value built from two
\* attributes.  Every other Payment field stays absent.
C11_FillTable ==
    order # NoOrder /\ DistinctAttrs(order) =>
        /\ \A a \in OrderAttrs :
               Attr(order, a) # None => HeldBy(doc[Pay], Attr(order, a)) = Targets(a)
        /\ doc[Pay]["Platelshchik"] =
               Str(PyStr(order.payer.inn) \o " " \o PyStr(order.payer.name))
        /\ \A f \in DOMAIN doc[Pay] :
               doc[Pay][f] # None =>
                   f = "Platelshchik" \/ \E a \in OrderAttrs : f \in Targets(a)

\* the mapper has filled a document with an order whose attributes all differ
C11_Witness ==
    /\ order = LooseOrder
    /\ DistinctAttrs(order)
    /\ call = "filled"

----------------------------------------------------------------------------
(* Values the formatter was not written for *)

\* C12: an order whose amount is not a decimal (a non-numeric string) is filled
\* without error, but no text of its document is ever rendered or posted: the
\* read of the document raises and the call ends with that error.
C12_MalformedAmountFails ==
    order # NoOrder /\ order.amount.kind = "str" =>
        /\ nrender = 0
        /\ req = <<>>
        /\ call = "returned" => ret.kind = "raised"

\* the value token of the one line the harness section rendered
FormattedToken == result.text[3]

\* the harness section rendered one line for its field
OneLine == result.kind = "text" /\ Len(result.text) = 4

\* C13: a field holding a value that is neither a date, a time, a decimal, a string
\* nor absent (an int, a float) makes the render of its section raise: no line is
\* emitted for it.
C13_UnsupportedTypeFails ==
    result # NoResult /\ input.value.kind \in {"int", "float"} => result.kind = "raised"

----------------------------------------------------------------------------
(* The canonical text of each kind of value *)

\* the two decimal digits of n < 100
TwoDigits(n) == ToString(n \div 10) \o ToString(n % 10)

\* the hundredths q written with two decimal places
Cents(neg, q) == (IF neg THEN "-" ELSE "") \o ToString(q \div 100) \o "." \o TwoDigits(q % 100)

\* q hundredths is a nearest cent of the decimal v, and the lower one when v is
\* non-negative and exactly halfway between two cents
NearestCent(v, q) ==
    IF v.scale <= 2
    THEN q * Pow10(v.scale) = v.coeff * 100
    ELSE LET unit == Pow10(v.scale - 2)
             diff == v.coeff - q * unit
         IN  /\ 2 * diff <= unit
             /\ 2 * diff >= 0 - unit
             /\ ~v.neg /\ (2 * diff = unit \/ 2 * diff = 0 - unit) => diff > 0

\* C14: a decimal is rendered with exactly two decimal places, rounded half-down:
\* the text is a nearest cent of the value, and for a non-negative value exactly
\* halfway between two cents it is the lower cent; 630170.005 gives 630170.00 and
\* 100.00 gives 100.00.
C14_RoundHalfDown ==
    result # NoResult /\ input.value.kind = "decimal" =>
        LET v == input.value
            low == IF v.scale <= 2 THEN v.coeff * Pow10(2 - v.scale)
                   ELSE v.coeff \div Pow10(v.scale - 2)
        IN  /\ OneLine
            /\ \E q \in {low, low + 1} : NearestCent(v, q) /\ FormattedToken = Cents(v.neg, q)
            /\ v = Decimal(FALSE, 630170005, 3) => FormattedToken = "630170.00"
            /\ v = Decimal(FALSE, 10000, 2) => FormattedToken = "100.00"

\* a non-negative decimal exactly halfway between two cents has been formatted
C14_Witness ==
    /\ result # NoResult
    /\ input.value = Decimal(FALSE, 125, 3)

\* C15: the formatter gives each kind of value its canonical text: an absent value
\* of a mandatory field the empty string, a string itself, a date DD.MM.YYYY and a
\* time HH:MM:SS, both zero-padded; date(2016,4,1) gives 01.04.2016.
C15_CanonicalText ==
    result # NoResult =>
        LET v == input.value
        IN  /\ v = None /\ input.mandatory => OneLine /\ FormattedToken = ""
            /\ v.kind = "str" => OneLine /\ FormattedToken = v.s
            /\ v.kind = "date" =>
                   /\ OneLine
                   /\ FormattedToken =
                          TwoDigits(v.d) \o "." \o TwoDigits(v.m) \o "." \o ToString(v.y)
                   /\ v = Date(2016, 4, 1) => FormattedToken = "01.04.2016"
            /\ v.kind = "time" =>
                   /\ OneLine
                   /\ FormattedToken =
                          TwoDigits(v.h) \o ":" \o TwoDigits(v.mi) \o ":" \o TwoDigits(v.s)

\* the date 01.04.2016 has been formatted
C15_Witness ==
    /\ result # NoResult
    /\ input.value = Date(2016, 4, 1)
    /\ result.kind = "text"

----------------------------------------------------------------------------
(* The KPP placeholder *)

\* the KPP the constructor was given: that of obj when obj is used, else the
\* keyword argument; absent when obj has no contragentKpp
SuppliedKpp ==
    IF Truthy(input.obj)
    THEN IF "contragentKpp" \in DOMAIN input.obj THEN input.obj["contragentKpp"] ELSE None
    ELSE input.kpp

\* C16: however a Contractor was constructed, from keyword arguments or from an
\* operation's JSON object, a read of kpp returns '0' when no KPP was supplied and
\* the supplied KPP when it is not empty.
C16_KppPlaceholder ==
    result.kind = "Contractor" /\ result.kpp # NoResult =>
        /\ SuppliedKpp = None => result.kpp = [kind |-> "value", value |-> Str("0")]
        /\ SuppliedKpp \notin {None, Str("")} =>
               result.kpp = [kind |-> "value", value |-> SuppliedKpp]

----------------------------------------------------------------------------
(* The life of the document of one create_payment_draft call *)

\* C17 as stated: the document of a call is rendered once: no state of a call has
\* seen a second render of its document.
C17_RenderedOnce ==
    order # NoOrder => nrender <= 1

\* C17, amended: the document of a call is filled once and read once for the posted
\* body; it is read a second time, for the PaymentResponse, exactly when the server
\* answered 200 with a body that parses, and never a third time.  The fields are
\* those the fill left, and the second read returns the posted text.
C17_RenderedPerRead ==
    order # NoOrder =>
        /\ doc[Pay] = FillDocument(DocumentSection_init, order)
        /\ call = "filled" => nrender = 0
        /\ call \in {"posted", "responded"} => nrender = 1
        /\ call = "returned" =>
               nrender = IF req = <<>> THEN 0
                         ELSE IF status = 200 /\ rbody = "json" THEN 2 ELSE 1
        /\ nrender >= 1 => out["document"] = req

\* a call that the server answered with 200 and JSON has returned
C17_Witness ==
    /\ call = "returned"
    /\ ret.kind = "PaymentResponse"
    /\ nrender = 2

----------------------------------------------------------------------------
(* Calls do not share a document *)

\* the texts a document filled with order o can hold besides the defaults
OwnTexts(o) ==
    {FormatValue(Attr(o, a)) : a \in {b \in OrderAttrs : Attr(o, b) # None}}
    \cup {"", o.account_num.s, PyStr(o.payer.inn) \o " " \o PyStr(o.payer.name)}

\* the texts of the defaults of a document constructed at instant t
DefaultTexts(t) ==
    {"1.02", "Windows", "modulbank_python", "Platezhnoe poruchenie",
     StrfDate(Today(t)), StrfTime(NowTime(t))}

\* C18: no two calls share document state.  The calls that have started hold
\* different documents, and the text a call posted has its own order's number in
\* the line Номер, its own account in the line РасчСчет, and no value other than
\* its own order's values and the defaults of construction.
C18_NoSharedState ==
    /\ \A c, d \in 1..MaxCalls :
           c # d /\ calls[c].cpc # "idle" /\ calls[d].cpc # "idle" =>
               calls[c].exchange # calls[d].exchange
    /\ \A c \in 1..MaxCalls :
           calls[c].cpc = "posted" =>
               LET lines == Lines(calls[c].posted)
                   o == calls[c].order
               IN  /\ \E i \in 1..Len(lines) : lines[i] = <<"Nomer", "=", o.doc_num.s>>
                   /\ \E i \in 1..Len(lines) :
                          lines[i] = <<"RaschSchet", "=", o.account_num.s>>
                   /\ \A i \in 1..Len(lines) :
                          Len(lines[i]) = 3 =>
                              lines[i][3] \in OwnTexts(o) \cup DefaultTexts(clock)

\* two calls with different orders have both posted
C18_Witness ==
    /\ calls[1].cpc = "posted"
    /\ calls[2].cpc = "posted"
    /\ calls[1].order # calls[2].order

----------------------------------------------------------------------------
(* Declared fields and held entries *)

\* C19: in each of the four section types every mandatory name is a declared name,
\* and a section holds an entry for every declared field from its construction on,
\* absent in a fresh Balances or Payment section, so that a render never looks up
\* a name the section does not hold.
C19_DeclaredCoversMandatory ==
    /\ \A sec \in SectionSet : Range(MandatoryFields(sec)) \subseteq Range(Fields(sec))
    /\ \A sec \in DOMAIN doc :
           Range(MandatoryFields(sec)) \cup Range(Fields(sec)) \subseteq DOMAIN doc[sec]
    /\ Fresh => \A sec \in {Bal, Pay} : \A name \in Range(Fields(sec)) : doc[sec][name] = None

\* a fresh document has been rendered
C19_Witness ==
    /\ Fresh
    /\ IsRendered
    /\ \A sec \in SectionSet : DOMAIN doc[sec] = Range(Fields(sec))

----------------------------------------------------------------------------
(* The posted document *)

\* the number of characters of a line, its newline aside
LineLen(line) ==
    IF Len(line) = 3 THEN CharLen(line[1]) + 1 + CharLen(line[3]) ELSE CharLen(line[1])

RECURSIVE SumLineLen(_, _)
SumLineLen(lines, i) == IF i > Len(lines) THEN 0 ELSE LineLen(lines[i]) + SumLineLen(lines, i + 1)

\* the number of characters of a document: its lines and the newlines between them
DocLen(text) == LET lines == Lines(text) IN SumLineLen(lines, 1) + Len(lines) - 1

\* C20: the document a create_payment_draft call posts for an order whose payer
\* has a bank account is longer than 100 characters and has, after the line
\* СекцияДокумент, a line whose value is the payer's account number.
C20_PostedDocument ==
    req # <<>> /\ order.payer.bank.account # None =>
        LET lines == Lines(req)
        IN  /\ DocLen(req) > 100
            /\ \E j \in 1..Len(lines) :
                   /\ lines[j][1] = "SekciyaDokument"
                   /\ \E i \in (j + 1)..Len(lines) :
                          /\ Len(lines[i]) = 3
                          /\ lines[i][3] = order.payer.bank.account.s

\* the order of the test has been posted
C20_Witness ==
    /\ order = TestOrder
    /\ call = "posted"
    /\ req # <<>>

----------------------------------------------------------------------------
(* Status before body *)

\* C21: in each of the four methods the status is examined before the body: 401
\* raises NotAuthorizedModulbankException, every other status but 200 raises
\* UnexpectedResponseStatusModulbankException, in both cases without the body
\* being parsed and without a result; a result is returned only for status 200.
C21_StatusBeforeBody ==
    result # NoResult /\ result.kind = "done" =>
        /\ input.status = 401 =>
               result.ret = Raised("NotAuthorizedModulbankException") /\ ~result.parsed
        /\ input.status \notin {200, 401} =>
               /\ result.ret = Raised("UnexpectedResponseStatusModulbankException")
               /\ ~result.parsed
        /\ result.ret.kind = "result" => input.status = 200 /\ result.parsed
        /\ result.parsed => input.status = 200

\* balance was answered 401 with a valid body and has raised
C21_Witness ==
    /\ result # NoResult
    /\ result.kind = "done"
    /\ input = [method |-> "balance", status |-> 401, body |-> "valid"]

\* C22: when the server answers 200 and the data cannot be processed (the body is
\* not JSON, or an entity value cannot be converted), accounts and operations
\* raise UnexpectedResponseBodyModulbankException; they raise nothing but the
\* not-authorized, the status and the body exception.
C22_BodyException ==
    result # NoResult /\ result.kind = "done" /\ input.method \in {"accounts", "operations"} =>
        /\ input.status = 200 /\ input.body # "valid" =>
               result.ret = Raised("UnexpectedResponseBodyModulbankException")
        /\ result.ret.kind = "raised" =>
               result.ret.exc \in {"NotAuthorizedModulbankException",
                                   "UnexpectedResponseStatusModulbankException",
                                   "UnexpectedResponseBodyModulbankException"}

----------------------------------------------------------------------------
(* Page size and paging *)

\* C23: every constructed client has a page size between 0 and 50: a page size
\* outside that range raises ValueError and yields no client.
C23_PageSizeRange ==
    result # NoResult =>
        IF input.page_size >= 0 /\ input.page_size <= 50
        THEN result.kind \in {"client", "criteria"}
        ELSE result = Raised("ValueError")

\* the page number the operations call works with: 0 when no options are given
EffectivePage == IF input.search = None THEN PyInt(0) ELSE input.search.page

\* C24: the criteria of an operations call with page number p hold skip = p *
\* page_size and records = page_size and no page; with page None they hold none of
\* page, skip and records; category, from and till are in the criteria exactly
\* when given, with the category's name and the dates as YYYY-MM-DD.
C24_PagingPatch ==
    result # NoResult /\ result.kind = "criteria" =>
        LET cr == result.criteria
            given(a) == input.search # None /\ input.search[a] # None
        IN  /\ "page" \notin DOMAIN cr
            /\ EffectivePage # None =>
                   /\ {"skip", "records"} \subseteq DOMAIN cr
                   /\ cr["skip"] = PyInt(EffectivePage.n * result.page_size)
                   /\ cr["records"] = PyInt(result.page_size)
            /\ EffectivePage = None => DOMAIN cr \cap {"skip", "records"} = {}
            /\ "category" \in DOMAIN cr <=> given("category")
            /\ "from" \in DOMAIN cr <=> given("date_from")
            /\ "till" \in DOMAIN cr <=> given("date_till")
            /\ given("category") => cr["category"] = input.search.category
            /\ given("date_from") => cr["from"] = Str("2016-04-01")
            /\ given("date_till") => cr["till"] = Str("2017-01-01")

\* a client with page size 10 has sent the criteria of page 1 of the debits
C24_Witness ==
    /\ result # NoResult
    /\ result.kind = "criteria"
    /\ input.page_size = 10
    /\ input.search # None
    /\ input.search.page = PyInt(1)
    /\ input.search.category = Str("Debet")

----------------------------------------------------------------------------
(* The document of the response *)

\* C25: the document of the PaymentResponse a create_payment_draft call returns is
\* the document the call posted: the same text, token for token.
C25_ResponseDocument ==
    ret.kind = "PaymentResponse" =>
        /\ call = "returned"
        /\ req # <<>>
        /\ ret.document = req

\* a call for the second order has returned its PaymentResponse
C25_Witness ==
    /\ ret.kind = "PaymentResponse"
    /\ order = OtherOrder
    /\ req # <<>>

----------------------------------------------------------------------------
(* The verdict on a notification's signature *)

\* the first ten characters of the token, or all of a shorter one
FirstTen(token) == [i \in 1..(IF Len(token) < 10 THEN Len(token) ELSE 10) |-> token[i]]

\* C26: check_signature(token) is true exactly when the signature equals, letter
\* case ignored, the SHA-1 hex digest of <first 10 characters of token>&<operation
\* id>; so another token with the same first 10 characters gives the same verdict,
\* and so does a notification that differs in a field other than the operation id
\* and the signature.
C26_SignatureVerdict ==
    result # NoResult =>
        LET n == input.n
            digest == Sha1Hex(FirstTen(input.token) \o <<"&">> \o n.operation_id)
        IN  /\ result.ok <=> Lower(n.signature) = Lower(digest)
            /\ \A t \in Tokens :
                   FirstTen(t) = FirstTen(input.token) => check_signature(n, t) = result.ok
            /\ \A other \in {Str(""), Str("1111111111")} :
                   check_signature([n EXCEPT !.inn = other], input.token) = result.ok

\* a token longer than ten characters has verified a signature in upper case
C26_Witness ==
    /\ result # NoResult
    /\ result.ok
    /\ Len(input.token) > 10
    /\ input.n.signature # Lower(input.n.signature)

----------------------------------------------------------------------------
(* The budgetary and tax part of an operation *)

\* C27: an operation's budgetary_and_tax is None exactly when its object has none
\* of the eight keys kbk, oktmo, paymentBasis, taxCode, taxDocNum, taxDocDate,
\* payerStatus, uin; otherwise it is a BudgetaryAndTax that holds the value of
\* each of those keys that is present.  (Refuted: an object whose only such key
\* is uin gets None.)
C27_BudgetaryPresence ==
    result # NoResult =>
        LET eight == {"kbk", "oktmo", "paymentBasis", "taxCode", "taxDocNum", "taxDocDate",
                      "payerStatus", "uin"}
            present == (DOMAIN input) \cap eight
        IN  IF present = {}
            THEN result.budgetary_and_tax = None
            ELSE /\ result.budgetary_and_tax # None
                 /\ DOMAIN result.budgetary_and_tax.attrs = present
                 /\ \A k \in present : result.budgetary_and_tax.attrs[k] = input[k]

----------------------------------------------------------------------------
(* What the fill leaves alone *)

\* C28: the fill of a call changes only РасчСчет of the Filter section and fields
\* of the Payment section of that call's document: the General section, the
\* Balances section, ДатаНачала, ДатаКонца and Документ of the Filter section and
\* the order's attributes are as before the fill.
C28_FillFrame ==
    [][\A c \in 1..MaxCalls :
          calls[c].cpc = "constructed" /\ calls'[c].cpc = "filled" =>
              LET before == heap[calls[c].exchange]
                  after == heap'[calls'[c].exchange]
              IN  /\ calls'[c].exchange = calls[c].exchange
                  /\ after[Gen] = before[Gen]
                  /\ after[Bal] = before[Bal]
                  /\ \A f \in {"DataNachala", "DataKonca", "Dokument"} :
                         after[Flt][f] = before[Flt][f]
                  /\ \A a \in OrderAttrs : Attr(calls'[c].order, a) = Attr(calls[c].order, a)
                  /\ \A f \in DOMAIN before[Flt] :
                         after[Flt][f] # before[Flt][f] => f = "RaschSchet"]_vars

\* a call has filled its document: the Filter section has the order's account and
\* the Payment section the order's number, the rest is as constructed
C28_Witness ==
    \E c \in 1..MaxCalls :
        /\ calls[c].cpc = "filled"
        /\ heap[calls[c].exchange][Flt]["RaschSchet"] = calls[c].order.account_num
        /\ heap[calls[c].exchange][Pay]["Nomer"] = calls[c].order.doc_num
        /\ heap[calls[c].exchange][Bal] = BalancesSection_init
        /\ heap[calls[c].exchange][Flt]["Dokument"] = None

----------------------------------------------------------------------------
(* The lines of a filled Payment section *)

\* every attribute of the order has a value, and no value is the empty text
AllPresent(o) == \A a \in OrderAttrs : Attr(o, a) \notin {None, Str("")}

\* C29: after the fill with an order all of whose attributes are present the
\* Payment section renders 30 mandatory lines and then exactly the four optional
\* lines ДатаСписано, НазначениеПлатежа, НазначениеПлатежа1, Очередность in this
\* order; the blank mandatory lines are exactly Плательщик1, Получатель1,
\* ВидПлатежа, СтатусСоставителя, ПоказательКБК, ОКАТО, ПоказательОснования,
\* ПоказательПериода, ПоказательНомера, ПоказательДаты.
C29_PaymentLines ==
    order # NoOrder /\ out # NoText /\ AllPresent(order) =>
        LET lines == Lines(out[Pay])
            m == DocumentSection_mandatory_fields
        IN  /\ Len(m) = 30
            /\ Len(lines) = 34
            /\ \A i \in 1..30 : lines[i][1] = m[i]
            /\ <<lines[31][1], lines[32][1], lines[33][1], lines[34][1]>> =
                   <<"DataSpisano", "NaznacheniePlatezha", "NaznacheniePlatezha1",
                     "Ocherednost">>
            /\ {lines[i][1] : i \in {j \in 1..30 : lines[j] = <<lines[j][1], "=", "">>}} =
                   {"Platelshchik1", "Poluchatel1", "VidPlatezha", "StatusSostavitelya",
                    "PokazatelKBK", "OKATO", "PokazatelOsnovaniya", "PokazatelPerioda",
                    "PokazatelNomera", "PokazatelDaty"}
            /\ \A i \in 31..34 : lines[i] # <<lines[i][1], "=", "">>

\* the document filled with the order of the test has been rendered for the post
C29_Witness ==
    /\ order = TestOrder
    /\ AllPresent(order)
    /\ call = "posted"
    /\ out # NoText
    /\ Len(Lines(out[Pay])) = 34

----------------------------------------------------------------------------
(* The order of the mandatory lines *)

\* the position of a name in a list that has it
IndexOf(list, name) == CHOOSE i \in 1..Len(list) : list[i] = name

\* the pairs of mandatory fields of section sec that the mandatory list has in the
\* order opposite to the declared list's
Inverted(sec) ==
    LET m == MandatoryFields(sec)
        at == [i \in 1..Len(m) |-> IndexOf(Fields(sec), m[i])]
    IN  {<<m[p[1]], m[p[2]]>> :
            p \in {q \in (1..Len(m)) \X (1..Len(m)) : q[1] < q[2] /\ at[q[1]] > at[q[2]]}}

\* C30 as stated: in every section type the mandatory fields are rendered in the
\* relative order of the declared list, the mandatory list being an
\* order-preserving subsequence of it: of two mandatory fields the one declared
\* first is rendered first.  (Refuted by the Payment section.)
C30_DeclaredOrder ==
    IsRendered =>
        \A sec \in SectionSet :
            LET lines == Lines(out[sec])
                mandatory == Range(MandatoryFields(sec))
            IN  \A i, j \in 1..Len(lines) :
                    i < j /\ lines[i][1] \in mandatory /\ lines[j][1] \in mandatory =>
                        IndexOf(Fields(sec), lines[i][1]) < IndexOf(Fields(sec), lines[j][1])

\* C30 amended: the mandatory fields are rendered in the order of the mandatory
\* list itself.  In the General, Filter and Balances sections that list is an
\* order-preserving subsequence of the declared list; in the Payment section it is
\* not: ВидОплаты is rendered before ВидПлатежа although ВидПлатежа is declared
\* first, and this is the only pair of mandatory fields rendered against the
\* declared order.
C30_MandatoryListOrder ==
    IsRendered =>
        /\ \A sec \in SectionSet :
               LET lines == Lines(out[sec])
                   m == MandatoryFields(sec)
               IN  /\ Len(lines) >= Len(m)
                   /\ \A i \in 1..Len(m) : lines[i][1] = m[i]
                   /\ \A i \in (Len(m) + 1)..Len(lines) : lines[i][1] \notin Range(m)
        /\ \A sec \in {Gen, Flt, Bal} : Inverted(sec) = {}
        /\ Inverted(Pay) = {<<"VidOplaty", "VidPlatezha">>}

\* a rendered Payment section has its ВидОплаты line before its ВидПлатежа line
C30_Witness ==
    /\ IsRendered
    /\ LET lines == Lines(out[Pay])
       IN  \E i, j \in 1..Len(lines) :
               i < j /\ lines[i][1] = "VidOplaty" /\ lines[j][1] = "VidPlatezha"

====
